---- MODULE Spec2Model ----
(***************************************************************************)
(* Model of the strategy-scoring and parameter-adjustment pipeline of      *)
(* src/src/bybit_monitor.py (class BybitMonitor, enum TradingStrategy).    *)
(*                                                                         *)
(* Numbers.  Python floats are modelled as exact rationals, carried as     *)
(* scaled integers; the scale is in the name of the quantity:              *)
(*   - a sub-score is held in tenths            (44.0  is 440),            *)
(*   - the total score is held in seventieths   (sum of the seven tenths), *)
(*   - volatility and hype are held in sixths   (40 is 240, 30 is 180),    *)
(*   - take-profits and stop-loss are held in hundredths (-7.2 is -720).   *)
(* The metric values drawn by the specifications are multiples of the      *)
(* divisors the code uses, so every division below is exact.               *)
(***************************************************************************)
EXTENDS Integers, Sequences, FiniteSets, TLC

(***************************************************************************)
(* Python values that a metric field may hold.                             *)
(***************************************************************************)
Num(n) == [k |-> "num", n |-> n]
\* the key is not in the dict
Missing == [k |-> "missing", n |-> 0]
\* the key is there and holds None
NoneV == [k |-> "none", n |-> 0]
\* a non-numeric string
StrV == [k |-> "str", n |-> 0]
\* the JSON integer -10**400: an int that no float can hold
HugeNeg == [k |-> "huge", n |-> 0]
\* not a value: the evaluation raised an exception
Raise == [k |-> "raise", n |-> 0]

IsNum(v) == v.k = "num"

\* a metric bag that is None
Absent == [absent |-> TRUE]

Sources == {"market", "social", "dex", "historical", "github", "trends", "orderbook"}

\* dict.get(key, default) and dict.get(key)
PyGet(bag, f, default) == IF bag[f].k = "missing" THEN default ELSE bag[f]
PyGetNone(bag, f) == PyGet(bag, f, NoneV)

\* truth value of a metric bag: None and the empty dict are falsy; a
\* MarketData object is always truthy
Truthy(bag) == /\ bag # Absent
               /\ \E f \in DOMAIN bag : bag[f].k # "missing"

Min(a, b) == IF a <= b THEN a ELSE b
Max(a, b) == IF a >= b THEN a ELSE b
Abs(a) == IF a < 0 THEN -a ELSE a

(***************************************************************************)
(* Symbols are strings of characters; str.upper and the substring test of  *)
(* `indicator in symbol.upper()` are computed on them.                     *)
(***************************************************************************)
LowerAlpha == <<"a","b","c","d","e","f","g","h","i","j","k","l","m",
                "n","o","p","q","r","s","t","u","v","w","x","y","z">>
UpperAlpha == <<"A","B","C","D","E","F","G","H","I","J","K","L","M",
                "N","O","P","Q","R","S","T","U","V","W","X","Y","Z">>

Upper(s) ==
  LET UpperChar(c) == IF \E i \in 1..26 : LowerAlpha[i] = c
                      THEN UpperAlpha[CHOOSE i \in 1..26 : LowerAlpha[i] = c]
                      ELSE c
  IN  [i \in 1..Len(s) |-> UpperChar(s[i])]

Contains(sub, s) == \E i \in 1..(Len(s) - Len(sub) + 1) :
                       SubSeq(s, i, i + Len(sub) - 1) = sub

meme_indicators == { <<"P","E","P","E">>, <<"M","E","M","E">>, <<"D","O","G","E">>,
                     <<"S","H","I","B">>, <<"B","A","B","Y">>, <<"E","L","O","N">>,
                     <<"M","O","O","N">>, <<"S","A","F","E">>, <<"I","N","U">>,
                     <<"A","P","E">> }

\* the attribute current_symbol before the first analysis: reading it raises
Unset == <<"<unset>">>

\* variant: the symbol is matched as written, without upper()
IsMemeMutant(sym) == \E ind \in meme_indicators : Contains(ind, sym)
IsMeme(sym) == \E ind \in meme_indicators : Contains(ind, Upper(sym))

(***************************************************************************)
(* TradingStrategy: the three presets.  take_profits and stop_loss in      *)
(* hundredths.  recovery_mode is a key the adjuster may add.               *)
(***************************************************************************)
Strategies == {"AGGRESSIVE_PUMP", "BALANCED_PUMP", "MOMENTUM"}

TradingStrategy ==
  [s \in Strategies |->
     CASE s = "AGGRESSIVE_PUMP" ->
            [take_profits |-> <<2000, 3000, 5000>>, stop_loss |-> -800,
             leverage |-> 5, trailing_stop |-> 10, recovery_mode |-> "absent"]
       [] s = "BALANCED_PUMP" ->
            [take_profits |-> <<1500, 2500, 4000>>, stop_loss |-> -1000,
             leverage |-> 3, trailing_stop |-> 15, recovery_mode |-> "absent"]
       [] s = "MOMENTUM" ->
            [take_profits |-> <<3000, 4500, 7000>>, stop_loss |-> -1200,
             leverage |-> 3, trailing_stop |-> 20, recovery_mode |-> "absent"]]

(***************************************************************************)
(* Sub-scorers.  Each returns Num(score in tenths), or NoneV when the bag  *)
(* is falsy or when the arithmetic raised (the bare `except` returns None).*)
(* Arithmetic on None, on a string, or float arithmetic on HugeNeg raises. *)
(***************************************************************************)
AllNum(vals) == \A i \in 1..Len(vals) : IsNum(vals[i])

calculate_market_score(market_data) ==
  IF ~Truthy(market_data) THEN NoneV
  ELSE LET cap  == market_data.market_cap
           vol  == market_data.volume_24h
           pc   == market_data.price_change_24h
           exch == market_data.exchanges_listed
       IN IF ~AllNum(<<cap, vol, pc, exch>>) THEN NoneV
          ELSE Num(  4 * Min(cap.n \div 1000000, 100)
                   + 3 * Min(vol.n \div 100000, 100)
                   + 2 * Min(Abs(pc.n), 100)
                   + 1 * Min(exch.n \div 5, 20))

calculate_social_score(social_metrics) ==
  IF ~Truthy(social_metrics) THEN NoneV
  ELSE LET h == PyGet(social_metrics, "hype_score", Num(0))
           s == PyGet(social_metrics, "sentiment", Num(0))
           c == PyGet(social_metrics, "community_strength", Num(0))
           g == PyGet(social_metrics, "growth_rate", Num(0))
       IN IF ~AllNum(<<h, s, c, g>>) THEN NoneV
          ELSE Num(3 * h.n + 3 * s.n + 2 * c.n + 2 * g.n)

calculate_dex_score(dex_data) ==
  IF ~Truthy(dex_data) THEN NoneV
  ELSE LET l == PyGet(dex_data, "liquidity", Num(0))
           h == PyGet(dex_data, "holders", Num(0))
           p == PyGet(dex_data, "priceChange24h", Num(0))
       IN IF ~AllNum(<<l, h, p>>) THEN NoneV
          ELSE Num(  4 * Min(l.n \div 100000, 100)
                   + 3 * Min(h.n \div 1000, 100)
                   + 3 * Min(Abs(p.n), 100))

calculate_historical_score(historical_patterns) ==
  IF ~Truthy(historical_patterns) THEN NoneV
  ELSE LET sr == PyGet(historical_patterns, "success_rate", Num(0))
           ar == PyGet(historical_patterns, "avg_roi_score", Num(0))
           st == PyGet(historical_patterns, "stability_score", Num(0))
       IN IF ~AllNum(<<sr, ar, st>>) THEN NoneV
          ELSE Num(4 * sr.n + 3 * ar.n + 3 * st.n)

calculate_github_score(github_data) ==
  IF ~Truthy(github_data) THEN NoneV
  ELSE LET c == PyGet(github_data, "commits_per_week", Num(0))
           a == PyGet(github_data, "active_contributors", Num(0))
       IN IF ~AllNum(<<c, a>>) THEN NoneV
          ELSE Num(  6 * Min(c.n \div 50, 100)
                   + 4 * Min(a.n \div 20, 100))

\* min(x, 100) is returned as it is: for HugeNeg it is HugeNeg itself
calculate_trends_score(trends_data) ==
  IF ~Truthy(trends_data) THEN NoneV
  ELSE LET i == PyGet(trends_data, "interest_over_time", Num(0))
       IN CASE i.k = "num"  -> Num(10 * Min(i.n, 100))
            [] i.k = "huge" -> HugeNeg
            [] i.k \in {"none", "str"} -> NoneV

calculate_orderbook_score(orderbook_data) ==
  IF ~Truthy(orderbook_data) THEN NoneV
  ELSE LET d == PyGet(orderbook_data, "depth_score", Num(0))
           b == PyGet(orderbook_data, "buy_pressure", Num(0))
           v == PyGet(orderbook_data, "volatility_risk", Num(0))
       IN IF ~AllNum(<<d, b, v>>) THEN NoneV
          ELSE Num(4 * d.n + 4 * b.n + 2 * (100 - v.n))

SubScore(src, bag) ==
  CASE src = "market"     -> calculate_market_score(bag)
    [] src = "social"     -> calculate_social_score(bag)
    [] src = "dex"        -> calculate_dex_score(bag)
    [] src = "historical" -> calculate_historical_score(bag)
    [] src = "github"     -> calculate_github_score(bag)
    [] src = "trends"     -> calculate_trends_score(bag)
    [] src = "orderbook"  -> calculate_orderbook_score(bag)

(***************************************************************************)
(* analyze_comprehensive_strategy, lines 1402-1436: the scores dictionary  *)
(* and the total score.                                                    *)
(***************************************************************************)
(***************************************************************************)
(* statistics.mean over a non-empty list of indicator values, in sixths.   *)
(* A string makes it raise TypeError.  With HugeNeg (-10**400) in the list *)
(* the mean is an int, HugeNeg again, when the sum is divisible by the     *)
(* length, and otherwise the conversion to float raises OverflowError      *)
(* (10**400 is 0 modulo 1 and 2, and 1 modulo 3).                          *)
(***************************************************************************)
RECURSIVE SumNum(_)
SumNum(xs) == IF xs = <<>> THEN 0
              ELSE (IF IsNum(Head(xs)) THEN Head(xs).n ELSE 0) + SumNum(Tail(xs))

Mean(xs) ==
  LET CountKind(ys, kind) == Cardinality({i \in 1..Len(ys) : ys[i].k = kind})
  IN  LET len  == Len(xs)
          huge == CountKind(xs, "huge")
      IN  IF CountKind(xs, "str") > 0 THEN Raise
          ELSE IF huge = 0 THEN Num((6 * SumNum(xs)) \div len)
          ELSE IF (SumNum(xs) - huge * (IF len = 3 THEN 1 ELSE 0)) % len = 0
               THEN HugeNeg
          ELSE Raise

AppendIfNotNone(xs, v) == IF v.k = "none" THEN xs ELSE Append(xs, v)

get_volatility_indicator(token_data) ==
  LET \* abs(x) of a field value; abs(None) and abs(str) raise TypeError
      PyAbs(v) == CASE v.k = "num" -> Num(Abs(v.n))
                    [] v.k \in {"none", "str"} -> Raise
  IN  LET m  == token_data["market"]
          o  == token_data["orderbook"]
          d  == token_data["dex"]
          a1 == IF Truthy(m) THEN PyAbs(m.price_change_24h) ELSE NoneV
          a2 == IF Truthy(o) THEN PyGetNone(o, "volatility_risk") ELSE NoneV
          a3 == IF Truthy(d) THEN PyAbs(PyGet(d, "priceChange24h", Num(0))) ELSE NoneV
          indicators == AppendIfNotNone(AppendIfNotNone(AppendIfNotNone(<<>>, a1), a2), a3)
      IN  IF a1 = Raise \/ a3 = Raise THEN Raise
          ELSE IF indicators = <<>> THEN Num(240)
          ELSE Mean(indicators)

\* variant: the symbol's name adds nothing to the indicators
get_hype_indicatorMutant(token_data, current_symbol) ==
  LET s  == token_data["social"]
      t  == token_data["trends"]
      h1 == IF Truthy(s) THEN PyGetNone(s, "hype_score") ELSE NoneV
      h2 == IF Truthy(t) THEN PyGetNone(t, "interest_over_time") ELSE NoneV
      indicators == AppendIfNotNone(AppendIfNotNone(<<>>, h1), h2)
  IN  IF current_symbol = Unset THEN Raise
      ELSE IF indicators = <<>> THEN Num(180)
      ELSE Mean(indicators)
get_hype_indicator(token_data, current_symbol) ==
  LET s  == token_data["social"]
      t  == token_data["trends"]
      h1 == IF Truthy(s) THEN PyGetNone(s, "hype_score") ELSE NoneV
      h2 == IF Truthy(t) THEN PyGetNone(t, "interest_over_time") ELSE NoneV
      base == AppendIfNotNone(AppendIfNotNone(<<>>, h1), h2)
      indicators == IF current_symbol # Unset /\ IsMeme(current_symbol)
                    THEN Append(base, Num(80)) ELSE base
  IN  IF current_symbol = Unset THEN Raise
      ELSE IF indicators = <<>> THEN Num(180)
      ELSE Mean(indicators)

(***************************************************************************)
(* select_strategy.  Arguments: total in seventieths, volatility and hype  *)
(* in sixths, each a Python value.  Returns [strategy, raised]: raised     *)
(* tells that the except branch produced the strategy; strategy is "raise" *)
(* when the handler itself raised (current_symbol unset).                  *)
(***************************************************************************)
\* x >= c for a Python value x in sixths and an integer constant c
\* variant: the comparison is strict
GeConstMutant(v, c) == CASE v.k = "num"  -> v.n > 6 * c
                         [] v.k = "huge" -> FALSE
GeConst(v, c) == CASE v.k = "num"  -> v.n >= 6 * c
                   [] v.k = "huge" -> FALSE

select_strategy(total_in, volatility_in, hype_in, current_symbol) ==
  LET \* 0.4*total + 0.3*volatility + 0.3*hype, times 2100.  The arithmetic is
      \* exact; the code evaluates the sum in binary floating point, whose result
      \* can differ from it in the last place.
      WeightedScore(total, vol, hyp) ==
        12 * total.n + 105 * vol.n + 105 * hyp.n
      SelectHandler(symbol) ==
        IF symbol = Unset THEN [strategy |-> "raise", raised |-> TRUE]
        ELSE IF IsMeme(symbol) THEN [strategy |-> "AGGRESSIVE_PUMP", raised |-> TRUE]
        ELSE [strategy |-> "BALANCED_PUMP", raised |-> TRUE]
  IN  LET total_score == IF total_in.k = "none" THEN Num(3500) ELSE total_in
          volatility  == IF volatility_in.k = "none" THEN Num(240) ELSE volatility_in
          hype        == IF hype_in.k = "none" THEN Num(180) ELSE hype_in
          ret(st)     == [strategy |-> st, raised |-> FALSE]
      IN  IF current_symbol = Unset THEN SelectHandler(current_symbol)
          ELSE IF IsMeme(current_symbol) THEN ret("AGGRESSIVE_PUMP")
          ELSE IF volatility.k = "str" THEN SelectHandler(current_symbol)
          ELSE IF GeConst(volatility, 70) THEN ret("AGGRESSIVE_PUMP")
          ELSE IF hype.k = "str" THEN SelectHandler(current_symbol)
          ELSE IF GeConst(hype, 80) THEN ret("AGGRESSIVE_PUMP")
          ELSE IF ~AllNum(<<total_score, volatility, hype>>) THEN SelectHandler(current_symbol)
          ELSE IF WeightedScore(total_score, volatility, hype) >= 70 * 2100
               THEN ret("AGGRESSIVE_PUMP")
          ELSE IF WeightedScore(total_score, volatility, hype) >= 45 * 2100
               THEN ret("BALANCED_PUMP")
          ELSE ret("MOMENTUM")

(***************************************************************************)
(* adjust_strategy_parameters.  presets holds the value dictionaries of    *)
(* the TradingStrategy members; scores holds tenths.                       *)
(***************************************************************************)
\* x > c and x < c for an indicator in sixths
GtConst(v, c) == CASE v.k = "num"  -> v.n > 6 * c
                   [] v.k = "huge" -> FALSE
LtConst(v, c) == CASE v.k = "num"  -> v.n < 6 * c
                   [] v.k = "huge" -> TRUE

\* variant: only the first target is multiplied
ScaleMutant(xs, pct) ==
  [i \in 1..Len(xs) |-> IF i = 1 THEN (xs[i] * pct) \div 100 ELSE xs[i]]
Scale(xs, pct) == [i \in 1..Len(xs) |-> (xs[i] * pct) \div 100]

\* lines 1649-1652
\* variant: the two comparisons include the thresholds 80 and 30
AdjustTakeProfitsMutant(take_profits, hype) ==
  IF GeConst(hype, 80) THEN Scale(take_profits, 120)
  ELSE IF ~GtConst(hype, 30) THEN Scale(take_profits, 80)
  ELSE take_profits
AdjustTakeProfits(take_profits, hype) ==
  IF GtConst(hype, 80) THEN Scale(take_profits, 120)
  ELSE IF LtConst(hype, 30) THEN Scale(take_profits, 80)
  ELSE take_profits

\* lines 1661-1665
\* variant: the caps are the stop losses of the presets themselves
max_stop_lossMutant == [s \in Strategies |->
                    CASE s = "AGGRESSIVE_PUMP" -> -800
                      [] s = "BALANCED_PUMP"   -> -1000
                      [] s = "MOMENTUM"        -> -1200]
max_stop_loss == [s \in Strategies |->
                    CASE s = "AGGRESSIVE_PUMP" -> -1000
                      [] s = "BALANCED_PUMP"   -> -1200
                      [] s = "MOMENTUM"        -> -1500]

\* lines 1654-1658: the volatility branch
\* variant: the multipliers are 0.8 and 1.2
StopLossBeforeCapMutant(stop_loss, volatility) ==
  IF GtConst(volatility, 60) THEN (stop_loss * 80) \div 100
  ELSE IF LtConst(volatility, 30) THEN (stop_loss * 120) \div 100
  ELSE stop_loss
StopLossBeforeCap(stop_loss, volatility) ==
  IF GtConst(volatility, 60) THEN (stop_loss * 90) \div 100
  ELSE IF LtConst(volatility, 30) THEN (stop_loss * 110) \div 100
  ELSE stop_loss

\* lines 1654-1667: the volatility branch, then the cap
\* variant: the low-volatility branch widens by 1.3 and the cap is not applied
AdjustStopLossMutant(strategy, stop_loss, volatility) ==
  IF GtConst(volatility, 60) THEN (stop_loss * 90) \div 100
  ELSE IF LtConst(volatility, 30) THEN (stop_loss * 130) \div 100
  ELSE stop_loss
AdjustStopLoss(strategy, stop_loss, volatility) ==
  Max(StopLossBeforeCap(stop_loss, volatility), max_stop_loss[strategy])

\* scores.get(key, default), default in tenths
ScoreGet(scores, key, default) ==
  IF key \in DOMAIN scores THEN scores[key] ELSE Num(default)

\* lines 1670-1674, in hundredths
\* variant: a missing sub-score counts as 0
RiskScoreMutant(scores) ==
    4 * ScoreGet(scores, "market", 0).n
  + 3 * ScoreGet(scores, "social", 0).n
  + 3 * ScoreGet(scores, "dex", 0).n
RiskScore(scores) ==
    4 * ScoreGet(scores, "market", 500).n
  + 3 * ScoreGet(scores, "social", 500).n
  + 3 * ScoreGet(scores, "dex", 500).n

\* lines 1676-1679
\* variant: the step is applied without the floor 1 and the ceiling 5
AdjustLeverageMutant(leverage, risk_score) ==
  IF risk_score < 4000 THEN leverage - 1
  ELSE IF risk_score > 7000 THEN leverage + 1
  ELSE leverage
AdjustLeverage(leverage, risk_score) ==
  IF risk_score < 4000 THEN Max(1, leverage - 1)
  ELSE IF risk_score > 7000 THEN Min(5, leverage + 1)
  ELSE leverage

\* lines 1682-1683; a HugeNeg score compares as smaller than any constant
\* variant: one of the two conditions is enough
RecoveryModeMutant(scores) ==
  LET ob == ScoreGet(scores, "orderbook", 0)
      mk == ScoreGet(scores, "market", 0)
  IN  \/ ob.k = "num" /\ ob.n > 800
      \/ mk.k = "num" /\ mk.n > 700
RecoveryMode(scores) ==
  LET ob == ScoreGet(scores, "orderbook", 0)
      mk == ScoreGet(scores, "market", 0)
  IN  /\ ob.k = "num" /\ ob.n > 800
      /\ mk.k = "num" /\ mk.n > 700

adjust_strategy_parameters(strategy, token_data, scores, presets, current_symbol) ==
  LET params     == presets[strategy]
      volatility == get_volatility_indicator(token_data)
      hype       == get_hype_indicator(token_data, current_symbol)
      risk_in    == <<ScoreGet(scores, "market", 500), ScoreGet(scores, "social", 500),
                      ScoreGet(scores, "dex", 500)>>
  IN  IF volatility = Raise \/ hype = Raise \/ ~AllNum(risk_in) THEN Raise
      ELSE [params EXCEPT
              !.take_profits  = AdjustTakeProfits(params.take_profits, hype),
              !.stop_loss     = AdjustStopLoss(strategy, params.stop_loss, volatility),
              !.leverage      = AdjustLeverage(params.leverage, RiskScore(scores)),
              !.recovery_mode = IF RecoveryMode(scores) THEN "True" ELSE @]

\* line 1643: params is a copy, so the assignments to its keys leave the
\* member's own dictionary as it was
\* variant: params is the member's dictionary itself, not a copy
PresetsAfterAdjustMutant(presets, strategy, params) ==
  IF params = Raise THEN presets ELSE [presets EXCEPT ![strategy] = params]
PresetsAfterAdjust(presets, strategy, params) == presets

(***************************************************************************)
(* analyze_comprehensive_strategy.  The locals are kept with the returned  *)
(* pair so that properties can speak about them.  A local that was never   *)
(* assigned, because an earlier statement raised, is Raise.                *)
(***************************************************************************)
\* lines 1450-1453: any exception of the body is answered with BALANCED_PUMP
\* and the value dictionary of BALANCED_PUMP itself
\* variant: the body is not guarded and the exception leaves the function
OuterExceptMutant(raised, strategy, params, presets) ==
  IF raised THEN [strategy |-> "raise", params |-> Raise]
  ELSE [strategy |-> strategy, params |-> params]
OuterExcept(raised, strategy, params, presets) ==
  IF raised THEN [strategy |-> "BALANCED_PUMP", params |-> presets["BALANCED_PUMP"]]
  ELSE [strategy |-> strategy, params |-> params]

\* line 1400: the symbol is stashed on the object; the helpers read it there
\* variant: a symbol that is already stashed is kept
StashSymbolMutant(current_symbol, symbol) ==
  IF current_symbol = Unset THEN symbol ELSE current_symbol
StashSymbol(current_symbol, symbol) == symbol

analyze_comprehensive_strategy(symbol, token_data, presets, current_symbol) ==
  LET \* `x or 50`: None and a numeric zero are both falsy
      OrNeutral(v) == IF v.k = "none" \/ (v.k = "num" /\ v.n = 0) THEN Num(500) ELSE v
      ScoresOf(data) ==
        [src \in Sources |->
           IF Truthy(data[src]) THEN OrNeutral(SubScore(src, data[src]))
           ELSE Num(500)]
      \* sum(scores.values()) / len(scores), in seventieths; a HugeNeg entry makes
      \* the sum or the division raise OverflowError
      TotalScore(scores) ==
        IF \A src \in Sources : IsNum(scores[src])
        THEN Num(  scores["market"].n + scores["social"].n + scores["dex"].n
                 + scores["historical"].n + scores["github"].n + scores["trends"].n
                 + scores["orderbook"].n)
        ELSE Raise
      \* `x or d` on an indicator (d in sixths): zero is falsy, HugeNeg is truthy
      OrDefault(v, d) == IF v.k = "num" /\ v.n = 0 THEN Num(d) ELSE v
  IN  LET stashed   == StashSymbol(current_symbol, symbol)
          scores    == ScoresOf(token_data)
          total     == TotalScore(scores)
          vol_raw   == IF total = Raise THEN Raise ELSE get_volatility_indicator(token_data)
          vol       == IF vol_raw = Raise THEN Raise ELSE OrDefault(vol_raw, 240)
          hype_raw  == IF vol = Raise THEN Raise ELSE get_hype_indicator(token_data, stashed)
          hype      == IF hype_raw = Raise THEN Raise ELSE OrDefault(hype_raw, 180)
          sel       == IF hype = Raise THEN [strategy |-> "raise", raised |-> FALSE]
                       ELSE select_strategy(total, vol, hype, stashed)
          params    == IF sel.strategy = "raise" THEN Raise
                       ELSE adjust_strategy_parameters(sel.strategy, token_data, scores,
                                                       presets, stashed)
          raised    == params = Raise
      IN  [op             |-> "analyze",
           symbol         |-> symbol,
           stashed        |-> stashed,
           before         |-> current_symbol,
           token_data     |-> token_data,
           scores         |-> scores,
           total_score    |-> total,
           volatility     |-> vol,
           hype           |-> hype,
           selected       |-> sel.strategy,
           select_raised  |-> sel.raised,
           outer_raised   |-> raised,
           ret            |-> OuterExcept(raised, sel.strategy, params, presets)]

(***************************************************************************)
(* Inputs.  Metric bags are drawn by level: level 0 is the bag whose       *)
(* fields are all zero, higher levels scale every field.                   *)
(***************************************************************************)
MaxLevel == 2
Levels == 0..MaxLevel

XUSDT    == <<"X","U","S","D","T">>
DOGEUSDT == <<"D","O","G","E","U","S","D","T">>
pepeusdt == <<"p","e","p","e","u","s","d","t">>
MarketBag(l) == [market_cap       |-> Num(l * 50000000),
                 volume_24h       |-> Num(l * 5000000),
                 price_change_24h |-> Num(-(l * 40)),
                 exchanges_listed |-> Num(l * 50)]
\* CoinMarketCap answered null for percent_change_24h
MarketNoChange == [MarketBag(1) EXCEPT !.price_change_24h = NoneV]
SocialBag(l) == [hype_score         |-> Num(l * 45),
                 sentiment          |-> Num(Min(l, 1)),
                 community_strength |-> Num(l * 50),
                 growth_rate        |-> Num(l * 100)]
DexBag(l) == [liquidity      |-> Num(l * 5000000),
              holders        |-> Num(l * 50000),
              priceChange24h |-> Num(-(l * 30))]
HistoricalBag == [success_rate |-> Num(60), avg_roi_score |-> Num(-20),
                  stability_score |-> Num(50)]
GithubBag == [commits_per_week |-> Num(1500), active_contributors |-> Num(400)]
TrendsBag(l) == [interest_over_time |-> Num(l * 45)]
\* the field holds text instead of a number
TrendsText == [interest_over_time |-> StrV]
\* what OrderBookAnalyzer._empty_analysis returns for an empty book
OrderbookEmpty == [depth_score |-> Num(0), buy_pressure |-> Num(0),
                   volatility_risk |-> Num(0)]
OrderbookBag(l) == [depth_score |-> Num(l * 100), buy_pressure |-> Num(1),
                    volatility_risk |-> Num(l * 10)]
TokenData ==
  LET MarketBags == {Absent, MarketNoChange} \cup {MarketBag(l) : l \in Levels}
      SocialBags ==
        LET SocialHuge == [hype_score |-> HugeNeg, sentiment |-> Missing,
                           community_strength |-> Missing, growth_rate |-> Missing]
        IN  {Absent, SocialHuge} \cup {SocialBag(l) : l \in Levels}
      DexBags == {Absent, DexBag(0), DexBag(1)}
      HistoricalBags == {Absent, HistoricalBag}
      GithubBags == {Absent, GithubBag}
      TrendsBags == {Absent, TrendsText, TrendsBag(0), TrendsBag(MaxLevel)}
      OrderbookBags == {Absent, OrderbookEmpty, OrderbookBag(MaxLevel)}
  IN  [market : MarketBags, social : SocialBags, dex : DexBags,
       historical : HistoricalBags, github : GithubBags,
       trends : TrendsBags, orderbook : OrderbookBags]

NoData == [src \in Sources |-> Absent]

(***************************************************************************)
(* State.  current_symbol and presets are what a BybitMonitor object and   *)
(* the TradingStrategy enum carry from one call to the next; call is the   *)
(* record of the call that has just returned and prev the record of the    *)
(* adjuster call before it.                                                *)
(***************************************************************************)
VARIABLES current_symbol, presets, pc, call, prev

\* the objects around the pipeline: the APICache dictionary and the wall
\* clock in seconds, with the last set() of every key that no clear() has
\* followed; listing_history of the monitor; the known_announcements of a
\* running monitor_new_listings; the announcement list the exchange
\* currently answers; the log of the polls made so far
VARIABLES cache, clock, last_set, listing_history, known_announcements, feed, trace

others == <<cache, clock, last_set, listing_history, known_announcements, feed, trace>>

vars == <<current_symbol, presets, pc, call, prev, others>>

NoCall == [op |-> "none"]

\* nothing is cached, nothing was announced and no poll has run
Quiet ==
  /\ cache = <<>>
  /\ clock = 0
  /\ last_set = <<>>
  /\ listing_history = {}
  /\ known_announcements = {}
  /\ feed = <<>>
  /\ trace = <<>>

Init ==
  /\ current_symbol = Unset
  /\ presets = TradingStrategy
  /\ pc = "idle"
  /\ call = NoCall
  /\ prev = NoCall
  /\ Quiet

\* a caller runs analyze_comprehensive_strategy(symbol, token_data)
Analyze(symbol, token_data) ==
  /\ pc = "idle"
  /\ call' = analyze_comprehensive_strategy(symbol, token_data, presets, current_symbol)
  /\ current_symbol' = StashSymbol(current_symbol, symbol)
  /\ pc' = "returned"
  /\ UNCHANGED <<presets, prev, others>>

\* the caller has consumed the result; an adjuster call is remembered as
\* the earlier call for the next one
Return ==
  /\ pc = "returned"
  /\ pc' = "idle"
  /\ call' = NoCall
  /\ prev' = IF call.op = "adjust" THEN call ELSE prev
  /\ UNCHANGED <<current_symbol, presets, others>>

Next ==
  LET Symbols  == {XUSDT, DOGEUSDT, pepeusdt}
  IN  \/ \E symbol \in Symbols, token_data \in TokenData : Analyze(symbol, token_data)
      \/ Return

Spec == Init /\ [][Next]_vars

(***************************************************************************)
(* SpecAdjust: direct calls of adjust_strategy_parameters on a monitor     *)
(* that may already have analysed a listing (current_symbol is then the    *)
(* symbol of that listing).                                                *)
(***************************************************************************)
AdjustTokenData ==
  {NoData} \cup {[NoData EXCEPT !["market"] = MarketBag(l)] : l \in Levels}
           \cup {[NoData EXCEPT !["social"] = SocialBag(l)] : l \in Levels}

\* a scores dictionary with every sub-score at v tenths; the values go
\* beyond [0,100] on both sides
ScoresAt(v) == [src \in Sources |-> Num(v)]
EmptyScores == [src \in {} |-> Num(0)]
InitAdjust ==
  LET AdjustSymbols == {Unset, XUSDT, DOGEUSDT}
  IN  /\ current_symbol \in AdjustSymbols
      /\ presets = TradingStrategy
      /\ pc = "idle"
      /\ call = NoCall
      /\ prev = NoCall
      /\ Quiet

AdjustCall(strategy, token_data, scores) ==
  /\ pc = "idle"
  /\ LET ret == adjust_strategy_parameters(strategy, token_data, scores,
                                           presets, current_symbol)
         volatility == get_volatility_indicator(token_data)
     IN  /\ call' = [op |-> "adjust", strategy |-> strategy,
                     token_data |-> token_data, scores |-> scores,
                     symbol |-> current_symbol,
                     stop_loss_before_cap |->
                        IF ret = Raise THEN Raise
                        ELSE StopLossBeforeCap(presets[strategy].stop_loss, volatility),
                     ret |-> ret]
         /\ presets' = PresetsAfterAdjust(presets, strategy, ret)
  /\ pc' = "returned"
  /\ UNCHANGED <<current_symbol, prev, others>>

NextAdjust ==
  LET AdjustScores == {EmptyScores, ScoresAt(-500), ScoresAt(500), ScoresAt(1500)}
  IN  \/ \E strategy \in Strategies, token_data \in AdjustTokenData, scores \in AdjustScores :
            AdjustCall(strategy, token_data, scores)
      \/ Return

SpecAdjust == InitAdjust /\ [][NextAdjust]_vars

(***************************************************************************)
(* SpecScore: direct calls of the seven sub-scorers on bags whose fields   *)
(* lie in the ranges of the data model.                                    *)
(***************************************************************************)
ScoreBags(src) ==
  LET Percent   == {Num(0), Num(50), Num(100)}
      Signed    == {Num(-50), Num(0), Num(50)}
      UnitRange == {Num(-1), Num(0), Num(1)}
  IN  {Absent} \cup
      CASE src = "market" ->
             [market_cap : {Num(0), Num(50000000), Num(200000000)},
              volume_24h : {Num(0), Num(5000000), Num(20000000)},
              price_change_24h : {Num(-150), Num(0), Num(40)},
              exchanges_listed : {Num(0), Num(50), Num(200)}]
        [] src = "social" ->
             [hype_score : Percent, sentiment : UnitRange,
              community_strength : Percent,
              growth_rate : {Num(-50), Num(0), Num(300)}]
        [] src = "dex" ->
             [liquidity : {Num(0), Num(5000000), Num(20000000)},
              holders : {Num(0), Num(50000), Num(200000)},
              priceChange24h : {Num(-150), Num(0), Num(40)}]
        [] src = "historical" ->
             [success_rate : Percent, avg_roi_score : Signed, stability_score : Percent]
        [] src = "github" ->
             [commits_per_week : {Num(0), Num(2500), Num(10000)},
              active_contributors : {Num(0), Num(1000), Num(4000)}]
        [] src = "trends" ->
             [interest_over_time : Percent]
        [] src = "orderbook" ->
             [depth_score : Percent, buy_pressure : UnitRange, volatility_risk : Percent]

ScoreCall(src, bag) ==
  /\ pc = "idle"
  /\ call' = [op |-> "score", src |-> src, bag |-> bag, ret |-> SubScore(src, bag)]
  /\ pc' = "returned"
  /\ UNCHANGED <<current_symbol, presets, prev, others>>

NextScore ==
  \/ \E src \in Sources : \E bag \in ScoreBags(src) : ScoreCall(src, bag)
  \/ Return

SpecScore == Init /\ [][NextScore]_vars

(***************************************************************************)
(* Properties of the pipeline, checked under Spec.                         *)
(***************************************************************************)
Analyzed == pc = "returned" /\ call.op = "analyze"

MemeSymbols == {DOGEUSDT, pepeusdt}

\* every field of every present bag holds an ordinary number
OrdinaryNumbers(token_data) ==
  \A src \in Sources :
     token_data[src] # Absent =>
        \A f \in DOMAIN token_data[src] : token_data[src][f].k = "num"

\* C1: for a symbol without meme substring and a record with all seven bags
\* absent, the total score is 50, volatility 40, hype 30, and the result is
\* BALANCED_PUMP with BALANCED_PUMP's base parameters.
C1_DefaultResolution ==
  (Analyzed /\ call.symbol \notin MemeSymbols /\ call.token_data = NoData) =>
     /\ call.total_score = Num(3500)
     /\ call.volatility = Num(240)
     /\ call.hype = Num(180)
     /\ call.ret.strategy = "BALANCED_PUMP"
     /\ call.ret.params = TradingStrategy["BALANCED_PUMP"]

SubScoreOrNeutral(src, bag) ==
  LET v == SubScore(src, bag) IN IF v.k = "none" THEN Num(500) ELSE v

OnlyMarketAndSocial(token_data) ==
  /\ Truthy(token_data["market"])
  /\ Truthy(token_data["social"])
  /\ \A src \in Sources \ {"market", "social"} : token_data[src] = Absent

\* C6: with only the market and social bags present, the total score is
\* (market_subscore + social_subscore + 5*50) / 7.
C6_PartialDataBlend ==
  (Analyzed /\ OnlyMarketAndSocial(call.token_data) /\ call.total_score # Raise) =>
     call.total_score.n =   SubScoreOrNeutral("market", call.token_data["market"]).n
                          + SubScoreOrNeutral("social", call.token_data["social"]).n
                          + 5 * 500

\* C7: a present bag whose sub-score computes to exactly 0 contributes 0,
\* not 50, to the scores on which the mean and the risk score are computed.
C7_ZeroIsNotUnknown ==
  Analyzed =>
     \A src \in Sources :
        (Truthy(call.token_data[src]) /\ SubScore(src, call.token_data[src]) = Num(0))
           => call.scores[src] = Num(0)

\* C8: analyze_comprehensive_strategy returns, for every symbol and every
\* record, a pair whose strategy is one of the three presets; no exception
\* reaches the caller.
C8_Availability ==
  Analyzed =>
     /\ call.ret.strategy \in Strategies
     /\ call.ret.params # Raise
     /\ call.ret.params.leverage \in Int

\* a record with a None price change: the body raised and the caller still
\* received a pair
C8_Witness ==
  /\ Analyzed
  /\ call.token_data["market"] = MarketNoChange
  /\ call.outer_raised
  /\ call.ret.strategy = "BALANCED_PUMP"

\* C9: whenever select_strategy's weighting raised, the caller receives
\* BALANCED_PUMP with BALANCED_PUMP's unmodified base parameters.
C9_SelectionFallback ==
  (Analyzed /\ call.select_raised) =>
     /\ call.ret.strategy = "BALANCED_PUMP"
     /\ call.ret.params = TradingStrategy["BALANCED_PUMP"]

(***************************************************************************)
(* Properties of the sub-scorers, checked under SpecScore.                 *)
(***************************************************************************)
Scored == pc = "returned" /\ call.op = "score"

\* C5: for a bag whose fields lie in the ranges of the data model, each
\* sub-scorer returns unknown or a value in [0,100].
C5_SubScoreRange ==
  Scored => \/ call.ret = NoneV
            \/ (IsNum(call.ret) /\ call.ret.n >= 0 /\ call.ret.n <= 1000)

(***************************************************************************)
(* Properties of the adjuster, checked under SpecAdjust.                   *)
(***************************************************************************)
Adjusted == pc = "returned" /\ call.op = "adjust" /\ call.ret # Raise

\* C3: the returned stop_loss is >= -10 for AGGRESSIVE_PUMP, >= -12 for
\* BALANCED_PUMP and >= -15 for MOMENTUM, whichever volatility branch ran.
C3_StopLossCap ==
  Adjusted =>
     /\ call.strategy = "AGGRESSIVE_PUMP" => call.ret.stop_loss >= -1000
     /\ call.strategy = "BALANCED_PUMP"   => call.ret.stop_loss >= -1200
     /\ call.strategy = "MOMENTUM"        => call.ret.stop_loss >= -1500

\* the widening branch ran on AGGRESSIVE_PUMP (volatility 0 < 30)
C3_Witness ==
  /\ Adjusted
  /\ call.strategy = "AGGRESSIVE_PUMP"
  /\ call.token_data["market"] = MarketBag(0)
  /\ call.ret.stop_loss < TradingStrategy["AGGRESSIVE_PUMP"].stop_loss

\* C4: the returned leverage is an integer in [1,5], for every strategy and
\* every scores dictionary, sub-scores outside [0,100] included.
C4_LeverageBounds ==
  Adjusted => call.ret.leverage \in 1..5

\* the raising branch ran on the preset whose base leverage is already 5
C4_Witness ==
  /\ Adjusted
  /\ call.strategy = "AGGRESSIVE_PUMP"
  /\ call.scores = ScoresAt(1500)
  /\ call.ret.leverage = 5

SameAdjustInputs ==
  /\ pc = "returned" /\ call.op = "adjust" /\ prev.op = "adjust"
  /\ call.strategy = prev.strategy
  /\ call.token_data = prev.token_data
  /\ call.scores = prev.scores
  /\ call.symbol = prev.symbol

SelectCall(total, volatility, hype) ==
  /\ pc = "idle"
  /\ call' = [op |-> "select", total_score |-> total, volatility |-> volatility,
              hype |-> hype, symbol |-> current_symbol,
              ret |-> select_strategy(total, volatility, hype, current_symbol)]
  /\ pc' = "returned"
  /\ UNCHANGED <<current_symbol, presets, prev, others>>

NextSelect ==
  LET SelectTotals == {0, 30, 44, 45, 50, 99, 100}
      SelectVolatilities == {0, 40, 45, 50, 60, 69, 70, 90}
      SelectHypes == {0, 30, 40, 45, 50, 79, 80, 95}
      \* an argument of select_strategy: None, or the number n at scale unit
      SelectArg(n, unit) == IF n = -1 THEN NoneV ELSE Num(n * unit)
  IN  \/ \E t \in SelectTotals \cup {-1}, v \in SelectVolatilities \cup {-1},
            h \in SelectHypes \cup {-1} :
            SelectCall(SelectArg(t, 70), SelectArg(v, 6), SelectArg(h, 6))
      \/ Return

SpecSelect == InitAdjust /\ [][NextSelect]_vars

(***************************************************************************)
(* Properties of the selector, checked under SpecSelect.                   *)
(***************************************************************************)
\* select_strategy has returned for three numbers and a symbol without
\* meme substring
SelectedPlain ==
  /\ pc = "returned" /\ call.op = "select"
  /\ call.symbol # Unset /\ ~IsMeme(call.symbol)
  /\ AllNum(<<call.total_score, call.volatility, call.hype>>)

\* ten times 0.4*total + 0.3*volatility + 0.3*hype of the call, the total
\* being held in seventieths and the indicators in sixths
Weighted10 ==
  4 * (call.total_score.n \div 70) + 3 * (call.volatility.n \div 6)
                                   + 3 * (call.hype.n \div 6)

get_coingecko_data(provider) ==
  IF provider = Raise \/ provider = Absent THEN Absent
  ELSE [provider EXCEPT !.price_change_24h = IF @ = NoneV THEN Num(0) ELSE @]

\* lines 510-581: None without an API key; fields are copied as they come
get_coinmarketcap_data(cmc_api_key, provider) ==
  IF ~cmc_api_key THEN Absent
  ELSE IF provider = Raise \/ provider = Absent THEN Absent
  ELSE provider

\* an order book as Bybit answers it: Absent for an empty answer, a record
\* without result, or result with the lists b (bids) and a (asks) of
\* <<price, size>> levels
HasResult(order_book) == "result" \in DOMAIN order_book

RECURSIVE SumSizes(_, _)
SumSizes(orders, n) ==
  IF orders = <<>> \/ n = 0 THEN 0
  ELSE Head(orders)[2] + SumSizes(Tail(orders), n - 1)

depth_levels == 20

\* orderbook_analyzer.py lines 8-31, with the three metrics the scorers
\* read (lines 46-64); the quotients are whole numbers on the books drawn
\* below, and a zero divisor raises ZeroDivisionError
analyze_orderbook(order_book) ==
  LET Prices(orders, n) == {orders[i][1] : i \in 1..Min(n, Len(orders))}
      MaxOf(S) == CHOOSE x \in S : \A y \in S : y <= x
      MinOf(S) == CHOOSE x \in S : \A y \in S : x <= y
  IN  IF order_book = Absent THEN OrderbookEmpty
      ELSE IF ~HasResult(order_book) THEN OrderbookEmpty
      ELSE LET bids == order_book.result.b
               asks == order_book.result.a
           IN  IF bids = <<>> \/ asks = <<>> THEN OrderbookEmpty
               ELSE LET bid_pressure == SumSizes(bids, 5)
                        ask_pressure == SumSizes(asks, 5)
                    IN  IF bid_pressure + ask_pressure = 0 \/ bids[1][1] = 0 THEN Raise
                        ELSE [depth_score |->
                                Num((SumSizes(bids, depth_levels)
                                       + SumSizes(asks, depth_levels)) \div 2),
                              buy_pressure |->
                                Num((bid_pressure - ask_pressure)
                                       \div (bid_pressure + ask_pressure)),
                              volatility_risk |->
                                Num(((MaxOf(Prices(asks, depth_levels))
                                        - MinOf(Prices(bids, depth_levels))) * 100)
                                       \div bids[1][1])]

\* a step of lines 1352-1393: the call is inside try/except Exception: pass
Guarded(outcome) == IF outcome = Raise THEN Absent ELSE outcome

\* lines 1334-1395.  outcomes holds what each provider answers.
\* variant: the fetches after the market data share one try, so that the
\* first one that raises ends the gathering and the remaining keys stay None
get_comprehensive_token_dataMutant(cmc_api_key, outcomes) ==
  LET coingecko == get_coingecko_data(outcomes.coingecko)
      order     == <<"social", "dex", "historical", "github", "trends", "order_book">>
      before(i) == \A j \in 1..(i - 1) : outcomes[order[j]] # Raise
      step(i)   == IF before(i) THEN Guarded(outcomes[order[i]]) ELSE Absent
      analysis  == IF before(6) /\ outcomes.order_book # Raise
                   THEN analyze_orderbook(outcomes.order_book) ELSE Raise
  IN  [market     |-> IF Truthy(coingecko) THEN coingecko
                      ELSE get_coinmarketcap_data(cmc_api_key, outcomes.coinmarketcap),
       social     |-> step(1),
       dex        |-> step(2),
       historical |-> step(3),
       github     |-> step(4),
       trends     |-> step(5),
       orderbook  |-> Guarded(analysis)]
get_comprehensive_token_data(cmc_api_key, outcomes) ==
  LET coingecko == get_coingecko_data(outcomes.coingecko)
      analysis  == IF outcomes.order_book = Raise THEN Raise
                   ELSE analyze_orderbook(outcomes.order_book)
  IN  [market     |-> IF Truthy(coingecko) THEN coingecko
                      ELSE get_coinmarketcap_data(cmc_api_key, outcomes.coinmarketcap),
       social     |-> Guarded(outcomes.social),
       dex        |-> Guarded(outcomes.dex),
       historical |-> Guarded(outcomes.historical),
       github     |-> Guarded(outcomes.github),
       trends     |-> Guarded(outcomes.trends),
       orderbook  |-> Guarded(analysis)]

(***************************************************************************)
(* SpecListing: analyze_last_listings processes one listing, lines         *)
(* 1104-1118: the data of the symbol are gathered and then analysed.       *)
(***************************************************************************)
\* DexScreener answered without any of the fields the scorers read
DexNoFields == [liquidity |-> Missing, holders |-> Missing,
                priceChange24h |-> Missing, pairs |-> NoneV]

OrderBookFull      == [result |-> [b |-> << <<100, 4>> >>, a |-> << <<110, 4>> >>]]
Outcomes ==
  LET \* order books: an error answer without result, a book with an empty side,
      \* a book whose sizes are all zero, and a book with one level on each side
      OrderBookNoResult  == [retCode |-> 10001]
      OrderBookEmptySide == [result |-> [b |-> << <<100, 4>> >>, a |-> <<>>]]
      OrderBookZeroSizes == [result |-> [b |-> << <<100, 0>> >>, a |-> << <<110, 0>> >>]]
      OrderBooks == {Raise, Absent, OrderBookNoResult, OrderBookEmptySide,
                     OrderBookZeroSizes, OrderBookFull}
  IN  [coingecko     : {Raise, Absent, MarketNoChange},
       coinmarketcap : {Raise, MarketBag(1)},
       social        : {Raise, Absent, SocialBag(1)},
       dex           : {Raise, DexNoFields, DexBag(1)},
       historical    : {Raise, HistoricalBag},
       github        : {Absent, GithubBag},
       trends        : {Raise, TrendsBag(1)},
       order_book    : OrderBooks]

ProcessListing(symbol, cmc_api_key, outcomes) ==
  /\ pc = "idle"
  /\ LET token_data == get_comprehensive_token_data(cmc_api_key, outcomes)
     IN  call' = [op          |-> "listing",
                  symbol      |-> symbol,
                  cmc_api_key |-> cmc_api_key,
                  outcomes    |-> outcomes,
                  token_data  |-> token_data,
                  analysis    |-> analyze_comprehensive_strategy(symbol, token_data,
                                                                 presets, current_symbol)]
  /\ current_symbol' = StashSymbol(current_symbol, symbol)
  /\ pc' = "returned"
  /\ UNCHANGED <<presets, prev, others>>

NextListing ==
  LET ListingSymbols == {XUSDT, DOGEUSDT}
  IN  \/ \E symbol \in ListingSymbols, cmc_api_key \in BOOLEAN, outcomes \in Outcomes :
            ProcessListing(symbol, cmc_api_key, outcomes)
      \/ Return

SpecListing == Init /\ [][NextListing]_vars

(***************************************************************************)
(* Properties of the gathering, checked under SpecListing.                 *)
(***************************************************************************)
Listed == pc = "returned" /\ call.op = "listing"

\* the order book of the symbol has no data: an empty answer, no result,
\* or no bids or no asks
NoOrderBookData(order_book) ==
  \/ order_book = Absent
  \/ order_book # Raise /\ ~HasResult(order_book)
  \/ order_book # Raise /\ HasResult(order_book)
       /\ (order_book.result.b = <<>> \/ order_book.result.a = <<>>)

\* C12: when the order book of the symbol has no data, the orderbook source
\* is absent in the gathered record, its sub-score is the neutral 50, and
\* the volatility indicator is the one of the record without the source.
C12_OrderBookAbsence ==
  (Listed /\ NoOrderBookData(call.outcomes.order_book)) =>
     /\ call.token_data["orderbook"] = Absent
     /\ call.analysis.scores["orderbook"] = Num(500)
     /\ get_volatility_indicator(call.token_data)
          = get_volatility_indicator([call.token_data EXCEPT !["orderbook"] = Absent])

\* the source an outcome belongs to failed
Failed(outcome) == outcome = Raise \/ outcome = Absent

TrendsNoInterest == [interest_over_time |-> NoneV]

IndicatorTokenData ==
  LET \* bags that are present and lack, or hold None in, the field an indicator
      \* reads
      OrderbookNoRisk == [depth_score |-> Num(100), buy_pressure |-> Num(1),
                          volatility_risk |-> Missing]
      DexNoChange     == [DexBag(1) EXCEPT !.priceChange24h = Missing]
      SocialNoHype    == [SocialBag(1) EXCEPT !.hype_score = Missing]
  IN  {[NoData EXCEPT !["market"] = mk, !["orderbook"] = ob, !["dex"] = dx,
                      !["social"] = so, !["trends"] = tr] :
          mk \in {Absent, MarketBag(1), MarketBag(2), MarketNoChange},
          ob \in {Absent, OrderbookBag(2), OrderbookNoRisk},
          dx \in {Absent, DexBag(1), DexNoChange, DexNoFields},
          so \in {Absent, SocialBag(1), SocialBag(2), SocialNoHype},
          tr \in {Absent, TrendsBag(2), TrendsNoInterest}}

InitIndicator ==
  LET IndicatorSymbols == {Unset, XUSDT, DOGEUSDT, pepeusdt}
  IN  /\ current_symbol \in IndicatorSymbols
      /\ presets = TradingStrategy
      /\ pc = "idle"
      /\ call = NoCall
      /\ prev = NoCall
      /\ Quiet

VolatilityCall(token_data) ==
  /\ pc = "idle"
  /\ call' = [op |-> "volatility", token_data |-> token_data,
              symbol |-> current_symbol,
              ret |-> get_volatility_indicator(token_data)]
  /\ pc' = "returned"
  /\ UNCHANGED <<current_symbol, presets, prev, others>>

HypeCall(token_data) ==
  /\ pc = "idle"
  /\ call' = [op |-> "hype", token_data |-> token_data,
              symbol |-> current_symbol,
              ret |-> get_hype_indicator(token_data, current_symbol)]
  /\ pc' = "returned"
  /\ UNCHANGED <<current_symbol, presets, prev, others>>

NextIndicator ==
  \/ \E token_data \in IndicatorTokenData : VolatilityCall(token_data)
  \/ \E token_data \in IndicatorTokenData : HypeCall(token_data)
  \/ Return

SpecIndicator == InitIndicator /\ [][NextIndicator]_vars

(***************************************************************************)
(* Properties of the indicators, checked under SpecIndicator.              *)
(***************************************************************************)
\* the term a field contributes: its value when the bag is present and
\* holds a number in the field, nothing otherwise
FieldTerm(bag, f) ==
  IF bag # Absent /\ f \in DOMAIN bag /\ bag[f].k = "num"
  THEN <<Num(Abs(bag[f].n))>> ELSE <<>>

\* the arithmetic mean of the terms in sixths, or the default when there
\* is no term
MeanOrDefault(terms, default) ==
  IF terms = <<>> THEN Num(6 * default)
  ELSE Num((6 * SumNum(terms)) \div Len(terms))

\* C13: get_volatility_indicator returns the mean of those of |market
\* price_change_24h|, orderbook volatility_risk and |dex priceChange24h|
\* whose values are present (a present bag without the field adds no term),
\* and 40 when none is present.
C13_VolatilityIndicator ==
  (pc = "returned" /\ call.op = "volatility") =>
     call.ret = MeanOrDefault(FieldTerm(call.token_data["market"], "price_change_24h")
                                \o FieldTerm(call.token_data["orderbook"], "volatility_risk")
                                \o FieldTerm(call.token_data["dex"], "priceChange24h"),
                              40)

\* C14: get_hype_indicator returns the mean of social hype_score (if
\* present), trends interest_over_time (if present) and 80 if the symbol
\* contains a meme substring in any letter case, and 30 when there is no
\* such term.
C14_HypeIndicator ==
  (pc = "returned" /\ call.op = "hype" /\ call.symbol # Unset) =>
     call.ret = MeanOrDefault(FieldTerm(call.token_data["social"], "hype_score")
                                \o FieldTerm(call.token_data["trends"], "interest_over_time")
                                \o (IF call.symbol \in MemeSymbols THEN <<Num(80)>> ELSE <<>>),
                              30)

\* a lower-case meme symbol without social and trends data has hype 80
C14_Witness ==
  /\ pc = "returned" /\ call.op = "hype"
  /\ call.symbol = pepeusdt
  /\ call.token_data["social"] = Absent
  /\ call.token_data["trends"] = TrendsNoInterest
  /\ call.ret = Num(6 * 80)

(***************************************************************************)
(* SpecRules: direct calls of adjust_strategy_parameters with hype,        *)
(* volatility and sub-scores on and next to the thresholds of its rules.   *)
(* The result is consumed without being remembered.                        *)
(***************************************************************************)
\* a social bag whose hype_score is h and a dex bag whose 24h change is -v
RuleSocial(h) == [SocialBag(1) EXCEPT !.hype_score = Num(h)]
RuleTokenData ==
  LET RuleHypes == {10, 29, 30, 80, 81, 90}
      RuleVolatilities == {29, 30, 60, 61}
      RuleDex(v)    == [DexBag(1) EXCEPT !.priceChange24h = Num(-v)]
  IN  {[NoData EXCEPT !["social"] = so, !["dex"] = dx] :
          so \in {Absent} \cup {RuleSocial(h) : h \in RuleHypes},
          dx \in {Absent} \cup {RuleDex(v) : v \in RuleVolatilities}}

\* scores dictionaries in tenths: the market sub-score mk, the social and
\* dex sub-scores sd, the orderbook sub-score ob; a dictionary with the
\* market key only; the empty dictionary
RuleScoresAt(mk, sd, ob) ==
  [ScoresAt(500) EXCEPT !["market"] = Num(mk), !["social"] = Num(sd),
                        !["dex"] = Num(sd), !["orderbook"] = Num(ob)]

RuleScores ==
  LET MarketOnlyScores == [src \in {"market"} |-> Num(1000)]
  IN  {EmptyScores, MarketOnlyScores}
        \cup {RuleScoresAt(mk, sd, ob) : mk \in {390, 400, 700, 710},
                                         sd \in {400, 700}, ob \in {800, 810}}

\* the caller has consumed the result
Forget ==
  /\ pc = "returned"
  /\ pc' = "idle"
  /\ call' = NoCall
  /\ UNCHANGED <<current_symbol, presets, prev, others>>

NextRules ==
  \/ \E strategy \in Strategies, token_data \in RuleTokenData, scores \in RuleScores :
        AdjustCall(strategy, token_data, scores)
  \/ Forget

SpecRules == InitAdjust /\ [][NextRules]_vars

(***************************************************************************)
(* Properties of the rules of the adjuster, checked under SpecRules.       *)
(***************************************************************************)
\* the indicators of the call that has returned, in sixths
CallHype == get_hype_indicator(call.token_data, call.symbol).n
CallVolatility == get_volatility_indicator(call.token_data).n

BaseOf(strategy) == TradingStrategy[strategy]

\* every target of ys is num/den times the target of xs at its place
Multiplied(ys, xs, num, den) ==
  /\ Len(ys) = Len(xs)
  /\ \A i \in 1..Len(xs) : den * ys[i] = num * xs[i]

\* C15: every take-profit target of the preset is multiplied by 1.2 when
\* hype > 80 and by 0.8 when hype < 30, and equals the base value when
\* 30 <= hype <= 80.
C15_TakeProfitRule ==
  Adjusted =>
     LET base == BaseOf(call.strategy).take_profits
         tp   == call.ret.take_profits
     IN  /\ CallHype > 6 * 80 => Multiplied(tp, base, 12, 10)
         /\ CallHype < 6 * 30 => Multiplied(tp, base, 8, 10)
         /\ (CallHype >= 6 * 30 /\ CallHype <= 6 * 80) => tp = base

\* hype is just above 80 and the targets were raised
C15_Witness ==
  /\ Adjusted
  /\ CallHype = 6 * 81
  /\ call.ret.take_profits # BaseOf(call.strategy).take_profits
  /\ Multiplied(call.ret.take_profits, BaseOf(call.strategy).take_profits, 12, 10)

StrictlyIncreasing(xs) == \A i \in 1..(Len(xs) - 1) : xs[i] < xs[i + 1]

\* the parameters returned for the inputs of the call with hype_score h
WithHype(h) ==
  adjust_strategy_parameters(call.strategy,
                             [call.token_data EXCEPT !["social"] = RuleSocial(h)],
                             call.scores, presets, call.symbol)

\* C16: the adjusted take-profit list has the length of the base list and
\* is strictly increasing like it, and each target obtained with hype 90
\* is 1.5 times the target obtained with hype 10 for the same preset.
C16_TakeProfitScaling ==
  Adjusted =>
     /\ Len(call.ret.take_profits) = Len(BaseOf(call.strategy).take_profits)
     /\ StrictlyIncreasing(BaseOf(call.strategy).take_profits)
     /\ StrictlyIncreasing(call.ret.take_profits)
     /\ CallHype = 6 * 90 =>
           Multiplied(call.ret.take_profits, WithHype(10).take_profits, 3, 2)

\* the call had hype 90, and with hype 10 the targets are lowered
C16_Witness ==
  /\ Adjusted
  /\ CallHype = 6 * 90
  /\ call.ret.take_profits[1] > BaseOf(call.strategy).take_profits[1]
  /\ WithHype(10).take_profits[1] < BaseOf(call.strategy).take_profits[1]

\* C17: before the cap, stop_loss is base*0.9 when volatility > 60,
\* base*1.1 when volatility < 30 and the base value when
\* 30 <= volatility <= 60.
C17_StopLossRule ==
  Adjusted =>
     LET base == BaseOf(call.strategy).stop_loss
         sl   == call.stop_loss_before_cap
     IN  /\ CallVolatility > 6 * 60 => 10 * sl = 9 * base
         /\ CallVolatility < 6 * 30 => 10 * sl = 11 * base
         /\ (CallVolatility >= 6 * 30 /\ CallVolatility <= 6 * 60) => sl = base

\* volatility is just above 60 and the stop loss moved towards zero
C17_Witness ==
  /\ Adjusted
  /\ CallVolatility = 6 * 61
  /\ call.stop_loss_before_cap > BaseOf(call.strategy).stop_loss

\* a sub-score of the dictionary in tenths, 50 when the key is missing
ScoreOr50(scores, key) == IF key \in DOMAIN scores THEN scores[key].n ELSE 500

\* 100 times 0.4*market + 0.3*social + 0.3*dex of the call
CallRisk ==
    4 * ScoreOr50(call.scores, "market") + 3 * ScoreOr50(call.scores, "social")
  + 3 * ScoreOr50(call.scores, "dex")

C19_RecoveryMode ==
  Adjusted =>
     LET ob == IF "orderbook" \in DOMAIN call.scores THEN call.scores["orderbook"].n ELSE 0
         mk == IF "market" \in DOMAIN call.scores THEN call.scores["market"].n ELSE 0
     IN  /\ call.ret.recovery_mode \in {"True", "absent"}
         /\ call.ret.recovery_mode = "True" <=> (ob > 800 /\ mk > 700)

\* both sub-scores are just above their thresholds and the flag is set
C19_Witness ==
  /\ Adjusted
  /\ call.scores = RuleScoresAt(710, 400, 810)
  /\ call.ret.recovery_mode = "True"

(***************************************************************************)
(* Further properties of the pipeline, checked under Spec.                 *)
(***************************************************************************)
\* the sub-scorer of src failed on the present bag of the call: its except
\* branch returned None
ScorerFailed(src) ==
  /\ Truthy(call.token_data[src])
  /\ SubScore(src, call.token_data[src]) = NoneV

\* the analysis of the same symbol on the record of the call without src
WithoutSource(src) ==
  analyze_comprehensive_strategy(call.symbol,
                                 [call.token_data EXCEPT ![src] = Absent],
                                 presets, call.symbol)

\* C21: when the sub-scorer of one source fails on a present bag, that
\* sub-score is 50, the analysis does not raise, and the other sub-scores,
\* the two indicators and the returned strategy and parameters are those
\* of the analysis in which the source is absent.
C21_ErrorLocality ==
  Analyzed =>
     \A src \in Sources :
        ScorerFailed(src) =>
           /\ ~call.outer_raised
           /\ call.scores = WithoutSource(src).scores
           /\ call.volatility = WithoutSource(src).volatility
           /\ call.hype = WithoutSource(src).hype
           /\ call.ret = WithoutSource(src).ret

\* C24: within one analysis, the volatility and hype on which
\* adjust_strategy_parameters decides its branches (it computes them again
\* from token_data) equal the volatility and hype passed to select_strategy.
C24_ConsistentIndicators ==
  (Analyzed /\ ~call.outer_raised) =>
     /\ get_volatility_indicator(call.token_data) = call.volatility
     /\ get_hype_indicator(call.token_data, call.stashed) = call.hype

\* C25: the pair returned for (symbol, token_data) is the one a new monitor
\* returns for it, whatever symbol an earlier analysis has stashed, and the
\* symbol the helpers read is the symbol of the call.
C25_NoCrossListingLeakage ==
  Analyzed =>
     /\ call.stashed = call.symbol
     /\ call.ret = analyze_comprehensive_strategy(call.symbol, call.token_data,
                                                  TradingStrategy, Unset).ret

\* a listing without meme substring and without data is analysed on a
\* monitor that has stashed a meme symbol before, and resolves as on a new
\* monitor
C25_Witness ==
  /\ Analyzed
  /\ call.before = DOGEUSDT
  /\ current_symbol = XUSDT
  /\ call.symbol = XUSDT
  /\ call.token_data = NoData
  /\ call.ret.strategy = "MOMENTUM"
  /\ call.stashed = XUSDT

\* stop losses, in hundredths, on both sides of every cap
ClampProbes == {-2000, -1501, -1500, -1499, -1201, -1200, -1199,
                -1001, -1000, -999, -500, 0}

ErrorResult == [result |-> 0, max_profit |-> 0, exit_type |-> "error"]

\* line 972: sorted() is stable; a kline goes behind the klines that are not
\* later than it
RECURSIVE InsertByTime(_, _)
InsertByTime(kline, sorted) ==
  IF sorted = <<>> THEN <<kline>>
  ELSE IF kline[1].n < Head(sorted)[1].n THEN <<kline>> \o sorted
  ELSE <<Head(sorted)>> \o InsertByTime(kline, Tail(sorted))

\* variant: the list is walked in the order of the answer
SortedByTimeMutant(list) == list
RECURSIVE SortedByTime(_)
SortedByTime(list) ==
  IF list = <<>> THEN <<>>
  ELSE InsertByTime(list[Len(list)], SortedByTime(SubSeq(list, 1, Len(list) - 1)))

\* lines 986-991: the leveraged change of a price against the entry price,
\* in hundredths of a percent
Leveraged(price, entry_price, leverage) ==
  ((price - entry_price) * 10000 * leverage) \div entry_price

\* lines 1000-1006: the first target of the list that the high has reached,
\* 0 when there is none
RECURSIVE FirstTargetHit(_, _)
FirstTargetHit(take_profits, leveraged_high) ==
  IF take_profits = <<>> THEN 0
  ELSE IF leveraged_high >= Head(take_profits) THEN Head(take_profits)
  ELSE FirstTargetHit(Tail(take_profits), leveraged_high)

\* float(kline[2]) and float(kline[3]) succeed
CandleReadable(kline) == Len(kline) >= 4 /\ IsNum(kline[3]) /\ IsNum(kline[4])

\* lines 982-1027: the loop from candle i on.  trailing_stop is 0 while it
\* is None in the code; both are falsy at line 1017.  last_low is the
\* leveraged_low of the candle before.
RECURSIVE WalkCandles(_, _, _, _, _, _, _)
WalkCandles(value, kline_data, entry_price, i, max_profit, trailing_stop, last_low) ==
  LET \* line 997, in hundredths of a percent
      TrailingStop(peak, preset) == (peak * (100 - preset.trailing_stop)) \div 100
  IN  IF i > Len(kline_data)
      THEN [ret |-> [result |-> last_low, max_profit |-> max_profit,
                     exit_type |-> "time_exit"], exit_index |-> 0]
      ELSE IF ~CandleReadable(kline_data[i]) THEN [ret |-> ErrorResult, exit_index |-> i]
      ELSE
        LET leveraged_high == Leveraged(kline_data[i][3].n, entry_price, value.leverage)
            leveraged_low  == Leveraged(kline_data[i][4].n, entry_price, value.leverage)
            new_max   == IF leveraged_high > max_profit THEN leveraged_high ELSE max_profit
            new_stop  == IF leveraged_high > max_profit THEN TrailingStop(new_max, value)
                         ELSE trailing_stop
            tp        == FirstTargetHit(value.take_profits, leveraged_high)
        IN  IF \E k \in 1..Len(value.take_profits) : leveraged_high >= value.take_profits[k]
            THEN [ret |-> [result |-> tp, max_profit |-> new_max,
                           exit_type |-> "take_profit"], exit_index |-> i]
            ELSE IF leveraged_low <= value.stop_loss
            THEN [ret |-> [result |-> value.stop_loss, max_profit |-> new_max,
                           exit_type |-> "stop_loss"], exit_index |-> i]
            ELSE IF new_stop # 0 /\ leveraged_low <= new_stop
            THEN [ret |-> [result |-> new_stop, max_profit |-> new_max,
                           exit_type |-> "trailing_stop"], exit_index |-> i]
            ELSE WalkCandles(value, kline_data, entry_price, i + 1, new_max, new_stop,
                             leveraged_low)

\* the whole function; any exception of the body is answered with the error
\* result (lines 1031-1033).  kline_data and exit_index are locals.
simulate_trade(strategy, klines_data, members) ==
  LET \* line 969: klines_data.get('result', {}).get('list') is truthy
      HasList(data) ==
        /\ "result" \in DOMAIN data
        /\ data.result.list # <<>>
      \* lines 978-980: none of the three names contains 'HYPE', so the list is
      \* never cut to its first five klines
      FocusWindow(name, kline_data) == kline_data
  IN  LET value == members[strategy]
          failed(kd) == [op |-> "simulate", strategy |-> strategy,
                         klines_data |-> klines_data, kline_data |-> kd,
                         exit_index |-> 0, ret |-> ErrorResult]
      IN  IF klines_data = Absent THEN failed(<<>>)
          ELSE IF ~HasList(klines_data) THEN failed(<<>>)
          ELSE LET list == klines_data.result.list
               IN  IF \E j \in 1..Len(list) : Len(list[j]) = 0 \/ ~IsNum(list[j][1])
                   THEN failed(<<>>)
                   ELSE LET kline_data == SortedByTime(list)
                            first == kline_data[1]
                        IN  IF Len(first) < 2 \/ ~IsNum(first[2]) THEN failed(kline_data)
                            ELSE IF CandleReadable(first) /\ first[2].n = 0
                            THEN failed(kline_data)
                            ELSE LET w == WalkCandles(value, FocusWindow(strategy, kline_data),
                                                      first[2].n, 1, 0, 0, 0)
                                 IN  [op |-> "simulate", strategy |-> strategy,
                                      klines_data |-> klines_data,
                                      kline_data |-> kline_data,
                                      exit_index |-> w.exit_index, ret |-> w.ret]

(***************************************************************************)
(* SpecTrade: calls of simulate_trade on kline answers of up to MaxCandles *)
(* klines, in any order of their start times, well-formed or not.  The     *)
(* entry price is 100, so a price p is a change of p - 100 percent.        *)
(***************************************************************************)
MaxCandles == 2

KlinesData ==
  LET TradeTimes == {1, 2}
      TradeHighs == {100, 102, 104, 110}
      TradeLows  == {96, 99, 102}
      GoodKlines == {<<Num(t), Num(100), Num(h), Num(l)>> :
                       t \in TradeTimes, h \in TradeHighs, l \in TradeLows}
      \* a start time that int() rejects, a high that float() rejects, a kline
      \* cut after its open, an open of 0
      BadTimeKline  == <<StrV, Num(100), Num(104), Num(99)>>
      BadHighKline  == <<Num(2), Num(100), StrV, Num(99)>>
      ShortKline    == <<Num(1), Num(100)>>
      ZeroOpenKline == <<Num(1), Num(0), Num(104), Num(99)>>
      Klines == GoodKlines \cup {BadTimeKline, BadHighKline, ShortKline, ZeroOpenKline}
      KlineLists == UNION {[1..n -> Klines] : n \in 0..MaxCandles}
      KlinesNoResult == [retCode |-> 10001]
  IN  {Absent, KlinesNoResult} \cup {[result |-> [list |-> l]] : l \in KlineLists}

SimulateCall(strategy, klines_data) ==
  /\ pc = "idle"
  /\ call' = simulate_trade(strategy, klines_data, presets)
  /\ pc' = "returned"
  /\ UNCHANGED <<current_symbol, presets, prev, others>>

NextTrade ==
  \/ /\ pc = "idle"
     /\ \E strategy \in Strategies, klines_data \in KlinesData :
           SimulateCall(strategy, klines_data)
  \/ Forget

SpecTrade == Init /\ [][NextTrade]_vars

(***************************************************************************)
(* Properties of simulate_trade, checked under SpecTrade.                  *)
(***************************************************************************)
Simulated == pc = "returned" /\ call.op = "simulate"

\* the klines of an answer that has a non-empty list
AnswerList(klines_data) == klines_data.result.list

Ascending(kd) == \A i, j \in 1..Len(kd) : i < j => kd[i][1].n <= kd[j][1].n

\* kd holds the klines of list, each as often as list does
SameKlines(kd, list) ==
  /\ Len(kd) = Len(list)
  /\ \A i \in 1..Len(list) :
        Cardinality({j \in 1..Len(kd) : kd[j] = list[i]})
          = Cardinality({j \in 1..Len(list) : list[j] = list[i]})

\* the leveraged high and low of kline j, in hundredths of a percent of the
\* open of the first kline
HighPct(kd, value, j) == Leveraged(kd[j][3].n, kd[1][2].n, value.leverage)
LowPct(kd, value, j)  == Leveraged(kd[j][4].n, kd[1][2].n, value.leverage)

\* the highest leveraged high of klines 1..j, 0 when none is above 0
RECURSIVE PeakUpTo(_, _, _)
PeakUpTo(kd, value, j) ==
  IF j = 0 THEN 0 ELSE Max(HighPct(kd, value, j), PeakUpTo(kd, value, j - 1))

TakeProfitFires(kd, value, j) ==
  \E k \in 1..Len(value.take_profits) : HighPct(kd, value, j) >= value.take_profits[k]
StopLossFires(kd, value, j) == LowPct(kd, value, j) <= value.stop_loss
TrailingFires(kd, value, j) ==
  /\ PeakUpTo(kd, value, j) > 0
  /\ 100 * LowPct(kd, value, j) <= PeakUpTo(kd, value, j) * (100 - value.trailing_stop)

\* the walk ends at kline j: it cannot be read, or one of the rules fires
Stops(kd, value, j) ==
  \/ ~CandleReadable(kd[j])
  \/ TakeProfitFires(kd, value, j)
  \/ StopLossFires(kd, value, j)
  \/ TrailingFires(kd, value, j)

\* the answer has no list, a start time is not a number, or the first kline
\* has no usable open
Unusable(klines_data) ==
  \/ klines_data = Absent
  \/ "result" \notin DOMAIN klines_data
  \/ AnswerList(klines_data) = <<>>
  \/ \E j \in 1..Len(AnswerList(klines_data)) :
        \/ Len(AnswerList(klines_data)[j]) = 0
        \/ ~IsNum(AnswerList(klines_data)[j][1])
  \/ LET first == SortedByTime(AnswerList(klines_data))[1]
     IN  Len(first) < 2 \/ ~IsNum(first[2]) \/ first[2].n = 0

LowestTarget(value) ==
  CHOOSE t \in {value.take_profits[k] : k \in 1..Len(value.take_profits)} :
     \A k \in 1..Len(value.take_profits) : t <= value.take_profits[k]

\* C30: simulate_trade walks the klines in ascending order of start time and
\* stops at the first kline in which a rule fires; within that kline the
\* take-profit is checked before the stop-loss and the stop-loss before the
\* trailing stop; a take_profit exit reports the lowest target; when no rule
\* fires on any kline the exit is time_exit; an answer that is empty, or
\* malformed where the walk reads it, gives the error result with result 0.
C30_ExitOrder ==
  Simulated =>
     LET value == TradingStrategy[call.strategy]
         kd    == call.kline_data
         stops == IF Unusable(call.klines_data) THEN {}
                  ELSE {j \in 1..Len(kd) :
                           /\ \A i \in 1..(j - 1) : CandleReadable(kd[i])
                           /\ Stops(kd, value, j)}
         first == CHOOSE j \in stops : \A i \in stops : j <= i
     IN  IF Unusable(call.klines_data) THEN call.ret = ErrorResult
         ELSE /\ Ascending(kd)
              /\ SameKlines(kd, AnswerList(call.klines_data))
              /\ IF stops = {} THEN call.ret.exit_type = "time_exit"
                 ELSE IF ~CandleReadable(kd[first]) THEN call.ret = ErrorResult
                 ELSE /\ call.exit_index = first
                      /\ call.ret.exit_type =
                           IF TakeProfitFires(kd, value, first) THEN "take_profit"
                           ELSE IF StopLossFires(kd, value, first) THEN "stop_loss"
                           ELSE "trailing_stop"
                      /\ call.ret.exit_type = "take_profit"
                           => call.ret.result = LowestTarget(value)

\* the answer lists the later kline first; no rule fires in the earlier one,
\* and in the later one the high is above all three targets and the low is
\* below the stop loss: the exit is the lowest take-profit
C30_Witness ==
  /\ Simulated
  /\ call.strategy = "AGGRESSIVE_PUMP"
  /\ call.klines_data = [result |-> [list |->
        << <<Num(2), Num(100), Num(110), Num(96)>>,
           <<Num(1), Num(100), Num(100), Num(99)>> >>]]
  /\ call.exit_index = 2
  /\ call.ret.exit_type = "take_profit"
  /\ call.ret.result = 2000

(***************************************************************************)
(* retry_on_failure (src/src/utils/api_utils.py).  outcomes[i] is what the *)
(* wrapped function does when it is awaited for the i-th time: Raise for   *)
(* an Exception, a value otherwise.  The result keeps the number of times  *)
(* the function was awaited and the arguments of time.sleep, in order.     *)
(***************************************************************************)
\* lines 15-23: the loop from `attempt` on
\* variant: the wait is not guarded by attempt < max_retries - 1
RECURSIVE RetryLoopMutant(_, _, _, _, _)
RetryLoopMutant(max_retries, delay, outcomes, attempt, sleeps) ==
  IF attempt >= max_retries
  THEN [ret |-> NoneV, calls |-> attempt, sleeps |-> sleeps]
  ELSE IF outcomes[attempt + 1] # Raise
  THEN [ret |-> outcomes[attempt + 1], calls |-> attempt + 1, sleeps |-> sleeps]
  ELSE RetryLoopMutant(max_retries, delay, outcomes, attempt + 1,
                       Append(sleeps, delay * 2 ^ attempt))
RECURSIVE RetryLoop(_, _, _, _, _)
RetryLoop(max_retries, delay, outcomes, attempt, sleeps) ==
  IF attempt >= max_retries
  THEN [ret |-> NoneV, calls |-> attempt, sleeps |-> sleeps]
  ELSE IF outcomes[attempt + 1] # Raise
  THEN [ret |-> outcomes[attempt + 1], calls |-> attempt + 1, sleeps |-> sleeps]
  ELSE RetryLoop(max_retries, delay, outcomes, attempt + 1,
                 IF attempt < max_retries - 1
                 THEN Append(sleeps, delay * 2 ^ attempt) ELSE sleeps)

\* the wrapper of lines 12-26
retry_on_failure(max_retries, delay, outcomes) ==
  LET r == RetryLoop(max_retries, delay, outcomes, 0, <<>>)
  IN  [op |-> "retry", max_retries |-> max_retries, delay |-> delay,
       outcomes |-> outcomes, ret |-> r.ret, calls |-> r.calls,
       sleeps |-> r.sleeps]

(***************************************************************************)
(* SpecRetry: calls of a wrapped function with up to MaxRetries attempts.  *)
(***************************************************************************)
MaxRetries == 3

RetryCall(max_retries, delay, outcomes) ==
  /\ pc = "idle"
  /\ call' = retry_on_failure(max_retries, delay, outcomes)
  /\ pc' = "returned"
  /\ UNCHANGED <<current_symbol, presets, prev, others>>

NextRetry ==
  LET RetryDelays == {1, 2, 5}
      AttemptOutcomes == {Raise, NoneV, Num(1), Num(2)}
  IN  \/ /\ pc = "idle"
         /\ \E max_retries \in 0..MaxRetries, delay \in RetryDelays :
              \E outcomes \in [1..max_retries -> AttemptOutcomes] :
                 RetryCall(max_retries, delay, outcomes)
      \/ Forget

SpecRetry == Init /\ [][NextRetry]_vars

Retried == pc = "returned" /\ call.op = "retry"

\* the attempts that do not raise
Succeeding == {i \in 1..call.max_retries : call.outcomes[i] # Raise}
FirstSuccess == CHOOSE i \in Succeeding : \A j \in Succeeding : i <= j

\* C27: the wrapped function is awaited at most n times; the result of the
\* first attempt that does not raise is returned and no attempt follows it;
\* when all n attempts raise, None is returned; the wrapper sleeps d*2^k
\* after failed attempt k, k = 0..n-2, and not after the last one.
C27_RetryProtocol ==
  Retried =>
     /\ call.calls <= call.max_retries
     /\ Succeeding # {} =>
           /\ call.calls = FirstSuccess
           /\ call.ret = call.outcomes[FirstSuccess]
           /\ Len(call.sleeps) = FirstSuccess - 1
     /\ Succeeding = {} =>
           /\ call.calls = call.max_retries
           /\ call.ret = NoneV
           /\ Len(call.sleeps) = Max(call.max_retries - 1, 0)
     /\ \A k \in 1..Len(call.sleeps) : call.sleeps[k] = call.delay * 2 ^ (k - 1)

\* three attempts, all raising, with delay 2: None after waits of 2 and 4
C27_Witness ==
  /\ Retried
  /\ call.max_retries = 3
  /\ call.delay = 2
  /\ Succeeding = {}
  /\ call.ret = NoneV
  /\ call.calls = 3
  /\ call.sleeps = <<2, 4>>

(***************************************************************************)
(* APICache (src/src/utils/api_utils.py).  The dictionary maps a key to    *)
(* the pair of value and time of its set(); times are seconds.             *)
(***************************************************************************)
\* line 33: the default of the constructor
ttl == 60

\* lines 36-43; the result is the returned value and the dictionary left
\* variant: an entry whose age is exactly ttl is still returned
APICacheGetMutant(dict, key, now) ==
  IF key \notin DOMAIN dict THEN [ret |-> NoneV, cache |-> dict]
  ELSE IF now - dict[key].timestamp <= ttl
  THEN [ret |-> dict[key].value, cache |-> dict]
  ELSE [ret |-> NoneV, cache |-> [k \in DOMAIN dict \ {key} |-> dict[k]]]
APICacheGet(dict, key, now) ==
  IF key \notin DOMAIN dict THEN [ret |-> NoneV, cache |-> dict]
  ELSE IF now - dict[key].timestamp < ttl
  THEN [ret |-> dict[key].value, cache |-> dict]
  ELSE [ret |-> NoneV, cache |-> [k \in DOMAIN dict \ {key} |-> dict[k]]]

\* lines 45-47
APICacheSet(dict, key, value, now) ==
  [k \in DOMAIN dict \cup {key} |->
     IF k = key THEN [value |-> value, timestamp |-> now] ELSE dict[k]]

\* lines 49-51
APICacheClear(dict) == <<>>

(***************************************************************************)
(* SpecCache: set, get and clear on one APICache while the clock advances  *)
(* in steps of half the ttl, up to MaxTicks steps.                         *)
(***************************************************************************)
MaxTicks == 4

monitor_state == <<listing_history, known_announcements, feed, trace>>

CacheSet(key, value) ==
  /\ pc = "idle"
  /\ cache' = APICacheSet(cache, key, value, clock)
  /\ last_set' = APICacheSet(last_set, key, value, clock)
  /\ UNCHANGED <<current_symbol, presets, pc, call, prev, clock, monitor_state>>

CacheGet(key) ==
  /\ pc = "idle"
  /\ call' = [op |-> "cache_get", key |-> key, ret |-> APICacheGet(cache, key, clock).ret]
  /\ cache' = APICacheGet(cache, key, clock).cache
  /\ pc' = "returned"
  /\ UNCHANGED <<current_symbol, presets, prev, clock, last_set, monitor_state>>

CacheClear ==
  /\ pc = "idle"
  /\ cache' = APICacheClear(cache)
  /\ last_set' = <<>>
  /\ UNCHANGED <<current_symbol, presets, pc, call, prev, clock, monitor_state>>

\* time passes between two operations
Tick ==
  LET TickSeconds == 30
  IN  /\ pc = "idle"
      /\ clock < MaxTicks * TickSeconds
      /\ clock' = clock + TickSeconds
      /\ UNCHANGED <<current_symbol, presets, pc, call, prev, cache, last_set, monitor_state>>

NextCache ==
  LET CacheKeys == {"tickers", "klines"}
      CacheValues == {Num(1), Num(2)}
  IN  \/ \E key \in CacheKeys, value \in CacheValues : CacheSet(key, value)
      \/ \E key \in CacheKeys : CacheGet(key)
      \/ CacheClear
      \/ Tick
      \/ Forget

SpecCache == Init /\ [][NextCache]_vars

CacheGot == pc = "returned" /\ call.op = "cache_get"

\* the key was set, no clear() followed, and less than ttl seconds have
\* passed since
Fresh(key) == key \in DOMAIN last_set /\ clock - last_set[key].timestamp < ttl

\* C28: get(k) returns the value of the most recent set(k, v) if and only if
\* less than ttl seconds have passed since that set and no clear() came
\* after it, and None otherwise; a get on an expired entry removes the
\* entry, and no value older than ttl is returned.
C28_TTLCache ==
  /\ \A k \in DOMAIN cache : k \in DOMAIN last_set /\ cache[k] = last_set[k]
  /\ CacheGot =>
        /\ Fresh(call.key) => call.ret = last_set[call.key].value
        /\ ~Fresh(call.key) => call.ret = NoneV
        /\ ~Fresh(call.key) => call.key \notin DOMAIN cache
        /\ call.ret # NoneV => clock - last_set[call.key].timestamp < ttl

\* a get exactly ttl seconds after the set answers None and the entry is gone
C28_Witness ==
  /\ CacheGot
  /\ call.key \in DOMAIN last_set
  /\ clock - last_set[call.key].timestamp = ttl
  /\ call.ret = NoneV
  /\ call.key \notin DOMAIN cache

(***************************************************************************)
(* Announcements.  A title is the list of its words (title.split()), each  *)
(* a string of characters; the text of the title joins them with blanks.   *)
(***************************************************************************)
RECURSIVE TitleText(_)
TitleText(title) ==
  IF title = <<>> THEN <<>>
  ELSE IF Len(title) = 1 THEN title[1]
  ELSE title[1] \o <<" ">> \o TitleText(Tail(title))

EndsWith(word, suffix) ==
  /\ Len(word) >= Len(suffix)
  /\ SubSeq(word, Len(word) - Len(suffix) + 1, Len(word)) = suffix

USDT == <<"U","S","D","T">>

\* lines 349 and 371: 'listing' in title.lower() and 'usdt' in title.lower()
IsListingTitle(title) ==
  LET LowerChar(c) == IF \E i \in 1..26 : UpperAlpha[i] = c
                      THEN LowerAlpha[CHOOSE i \in 1..26 : UpperAlpha[i] = c]
                      ELSE c
      Lower(s) == [i \in 1..Len(s) |-> LowerChar(s[i])]
  IN  /\ Contains(<<"l","i","s","t","i","n","g">>, Lower(TitleText(title)))
      /\ Contains(<<"u","s","d","t">>, Lower(TitleText(title)))

WordNew     == <<"N","e","w">>
WordListing == <<"L","i","s","t","i","n","g",":">>
ListingX    == [id |-> 1, title |-> <<WordNew, WordListing, XUSDT>>]
ListingDoge == [id |-> 2, title |-> <<WordNew, WordListing, DOGEUSDT>>]
\* the symbol is written in lower case
ListingPepe == [id |-> 3, title |-> <<WordListing, pepeusdt>>]
Notice      ==
  LET WordSystem  == <<"S","y","s","t","e","m">>
      WordUpgrade == <<"U","p","g","r","a","d","e">>
  IN  [id |-> 4, title |-> <<WordSystem, WordUpgrade>>]

Announcements == {ListingX, ListingDoge, ListingPepe, Notice}

\* what get_announcements returns: the list of the exchange, or {} when the
\* request failed (lines 299-314)
get_announcements(answered, list) == IF answered THEN list ELSE <<>>

(***************************************************************************)
(* check_new_listings, as run() calls it once per interval.                *)
(***************************************************************************)
\* lines 373-377: the words of one title for which handle_new_listing is
\* called
RECURSIVE WordsToHandle(_, _)
WordsToHandle(words, history) ==
  IF words = <<>> THEN <<>>
  ELSE (IF EndsWith(Head(words), USDT) /\ Head(words) \notin history
        THEN <<Head(words)>> ELSE <<>>)
       \o WordsToHandle(Tail(words), history)

\* lines 368-377: the calls of handle_new_listing of one poll, in order.
\* Nothing in the loop writes listing_history.
RECURSIVE check_new_listings(_, _)
check_new_listings(announcements, history) ==
  IF announcements = <<>> THEN <<>>
  ELSE (IF IsListingTitle(Head(announcements).title)
        THEN WordsToHandle(Head(announcements).title, history) ELSE <<>>)
       \o check_new_listings(Tail(announcements), history)

\* lines 732-733 and api_utils.py lines 12-26: handle_new_listing is a
\* coroutine function behind the asynchronous wrapper of retry_on_failure.
\* The call of line 377 builds a coroutine object that nobody awaits, so
\* the body does not run and listing_history stays as it is.
handle_new_listing(history, symbol) == history

\* lines 346-355: the symbols of the listing announcements at start-up
RECURSIVE initialize_known_symbols(_)
initialize_known_symbols(announcements) ==
  IF announcements = <<>> THEN {}
  ELSE (IF IsListingTitle(Head(announcements).title)
        THEN {Head(announcements).title[i] :
                i \in {j \in 1..Len(Head(announcements).title) :
                         EndsWith(Head(announcements).title[j], USDT)}}
        ELSE {})
       \cup initialize_known_symbols(Tail(announcements))

RECURSIVE HandleAll(_, _)
HandleAll(history, symbols) ==
  IF symbols = <<>> THEN history
  ELSE HandleAll(handle_new_listing(history, Head(symbols)), Tail(symbols))

(***************************************************************************)
(* SpecPolls: a monitor is constructed while the exchange lists some       *)
(* announcements; later the exchange publishes more, and run() polls up to *)
(* MaxPolls times.  trace logs, per poll, the symbols for which            *)
(* handle_new_listing was called.                                          *)
(***************************************************************************)
MaxPolls == 3

InitPolls ==
  LET StartFeeds == {<<>>, <<Notice>>, <<ListingDoge>>, <<ListingDoge, Notice>>}
  IN  /\ current_symbol = Unset
      /\ presets = TradingStrategy
      /\ pc = "idle"
      /\ call = NoCall
      /\ prev = NoCall
      /\ cache = <<>>
      /\ clock = 0
      /\ last_set = <<>>
      /\ feed \in StartFeeds
      /\ \E answered \in BOOLEAN :
            listing_history = initialize_known_symbols(get_announcements(answered, feed))
      /\ known_announcements = {}
      /\ trace = <<>>

\* the exchange publishes an announcement; the newest comes first
Publish(a) ==
  LET InFeed(b) == \E i \in 1..Len(feed) : feed[i] = b
  IN  /\ ~InFeed(a)
      /\ feed' = <<a>> \o feed
      /\ UNCHANGED <<current_symbol, presets, pc, call, prev, cache, clock, last_set,
                     listing_history, known_announcements, trace>>

\* one round of the loop of run(): lines 904-906
PollListings(answered) ==
  /\ Len(trace) < MaxPolls
  /\ LET handled == check_new_listings(get_announcements(answered, feed),
                                       listing_history)
     IN  /\ listing_history' = HandleAll(listing_history, handled)
         /\ trace' = Append(trace, [handled |-> handled])
  /\ UNCHANGED <<current_symbol, presets, pc, call, prev, cache, clock, last_set,
                 known_announcements, feed>>

NextPolls ==
  \/ \E a \in Announcements : Publish(a)
  \/ \E answered \in BOOLEAN : PollListings(answered)

SpecPolls == InitPolls /\ [][NextPolls]_vars

\* the polls in which handle_new_listing was called for the symbol
PollsHandling(symbol) ==
  {i \in 1..Len(trace) : \E k \in 1..Len(trace[i].handled) : trace[i].handled[k] = symbol}

\* C22: over the polls of check_new_listings, handle_new_listing is started
\* once for a newly detected symbol and not once per poll: a symbol that
\* was handled in one poll is not handled in a later one.
C22_OncePerListing ==
  \A a \in Announcements : \A k \in 1..Len(a.title) :
     Cardinality(PollsHandling(a.title[k])) <= 1

(***************************************************************************)
(* monitor_new_listings.                                                   *)
(***************************************************************************)
NoSymbol == <<>>

\* lines 1035-1051: re.findall on title.upper(), first pattern that matches,
\* first match of it; the group is greedy.  The second pattern spells "of"
\* and "on" in lower case and so matches nothing in an upper-case text; the
\* third matches only where the first one does.  Only the first decides.
extract_symbol(title) ==
  LET \* line 1040, ([A-Z0-9]+)(?:\/)?USDT: the ends g of a group that starts at p
      GroupEnds(text, p) ==
        LET Digits == {"0","1","2","3","4","5","6","7","8","9"}
            IsAlnum(c) == c \in Digits \/ \E i \in 1..26 : UpperAlpha[i] = c
            \* USDT stands in text at position p
            UsdtAt(t, q) == q + 3 <= Len(t) /\ SubSeq(t, q, q + 3) = USDT
        IN  {g \in p..Len(text) :
               /\ \/ UsdtAt(text, g + 1)
                  \/ (g + 1 <= Len(text) /\ text[g + 1] = "/" /\ UsdtAt(text, g + 2))
               /\ \A i \in p..g : IsAlnum(text[i])}
  IN  LET Least(S) == CHOOSE x \in S : \A y \in S : x <= y
          Greatest(S) == CHOOSE x \in S : \A y \in S : x >= y
          \* the first match of the first pattern in text, NoSymbol when there is none
          FirstGroup(text, starts) ==
            IF starts = {} THEN NoSymbol
            ELSE SubSeq(text, Least(starts), Greatest(GroupEnds(text, Least(starts))))
      IN  LET text  == Upper(TitleText(title))
              group == FirstGroup(text, {p \in 1..Len(text) : GroupEnds(text, p) # {}})
          IN  IF group # NoSymbol THEN group \o USDT ELSE NoSymbol

\* line 1269
IsMonitorTitle(title) ==
  /\ \/ Contains(<<"L","I","S","T","I","N","G">>, Upper(TitleText(title)))
     \/ Contains(<<"W","I","L","L"," ","L","I","S","T">>, Upper(TitleText(title)))
  /\ Contains(USDT, Upper(TitleText(title)))

\* lines 1310-1318: market_cap * 0.15 and volume_24h * 0.08 raise TypeError
\* on None
simulate_initial_conditions(market_data) ==
  IF ~IsNum(market_data.market_cap) \/ ~IsNum(market_data.volume_24h) THEN Raise
  ELSE [market_cap       |-> Num((market_data.market_cap.n * 15) \div 100),
        volume_24h       |-> Num((market_data.volume_24h.n * 8) \div 100),
        price_change_24h |-> Num(0),
        exchanges_listed |-> Num(1)]

\* lines 1263-1301: the for loop of one iteration over the announcements
\* left, with the ids known and the alerts printed so far.  An exception
\* leaves the loop; the id is added only after the analysis (line 1301).
RECURSIVE MonitorLoop(_, _, _, _)
MonitorLoop(announcements, known, alerts, providers) ==
  LET \* lines 1277-1299: the analysis behind the alert raises.  The strategy and
      \* its parameters are only printed.
      AnalysisRaises(market_data) ==
        market_data # Absent /\ simulate_initial_conditions(market_data) = Raise
  IN  IF announcements = <<>> THEN [known |-> known, alerts |-> alerts, raised |-> FALSE]
      ELSE
        LET a      == Head(announcements)
            symbol == extract_symbol(a.title)
            alerted == Append(alerts, [id |-> a.id, symbol |-> symbol])
        IN  IF a.id \in known \/ ~IsMonitorTitle(a.title) \/ symbol = NoSymbol
            THEN MonitorLoop(Tail(announcements), known, alerts, providers)
            ELSE IF AnalysisRaises(get_coingecko_data(providers[a.id]))
            THEN [known |-> known, alerts |-> alerted, raised |-> TRUE]
            ELSE MonitorLoop(Tail(announcements), known \cup {a.id}, alerted, providers)

(***************************************************************************)
(* SpecMonitor: monitor_new_listings reads the announcements once at       *)
(* start-up and then polls up to MaxPolls times while the exchange         *)
(* publishes.  trace[1] holds the ids the exchange listed at start-up;     *)
(* every later entry holds the alerts of one iteration.                    *)
(***************************************************************************)
\* "Listing of X on USDT": a listing title in which no pattern finds a symbol
ListingOf == [id |-> 5, title |-> <<<<"L","i","s","t","i","n","g">>, <<"o","f">>,
                                    <<"X">>, <<"o","n">>, USDT>>]

MonitorAnnouncements == {ListingX, ListingPepe, ListingOf, Notice}
MonitorProviders ==
  LET \* CoinGecko knows the price of the coin and answers null for its market cap
      MarketNoCap == [MarketBag(1) EXCEPT !.market_cap = NoneV]
  IN  {Absent, MarketBag(1), MarketNoCap}

Ids(announcements) == {announcements[i].id : i \in 1..Len(announcements)}

InitMonitor ==
  LET MonitorStartFeeds == {<<>>, <<ListingPepe, Notice>>}
  IN  /\ current_symbol = Unset
      /\ presets = TradingStrategy
      /\ pc = "idle"
      /\ call = NoCall
      /\ prev = NoCall
      /\ cache = <<>>
      /\ clock = 0
      /\ last_set = <<>>
      /\ listing_history = {}
      /\ feed \in MonitorStartFeeds
      /\ \E answered \in BOOLEAN :
            known_announcements = Ids(get_announcements(answered, feed))
      /\ trace = <<[in_feed |-> Ids(feed), alerts |-> <<>>]>>

\* one iteration of the while loop, lines 1259-1308
MonitorPoll(answered, providers) ==
  /\ Len(trace) < MaxPolls + 1
  /\ LET r == MonitorLoop(get_announcements(answered, feed), known_announcements,
                          <<>>, providers)
     IN  /\ known_announcements' = r.known
         /\ trace' = Append(trace, [in_feed |-> Ids(feed), alerts |-> r.alerts])
  /\ UNCHANGED <<current_symbol, presets, pc, call, prev, cache, clock, last_set,
                 listing_history, feed>>

NextMonitor ==
  LET \* what the exchange publishes while the monitor runs
      MonitorNews == {ListingX, ListingOf}
  IN  \/ \E a \in MonitorNews : Publish(a)
      \/ /\ Len(trace) < MaxPolls + 1
         /\ \E answered \in BOOLEAN,
               providers \in [Ids(feed) \ known_announcements -> MonitorProviders] :
               MonitorPoll(answered, providers)

SpecMonitor == InitMonitor /\ [][NextMonitor]_vars

\* the iterations that raised the alert for the announcement
Alerting(id) ==
  {i \in 2..Len(trace) : \E k \in 1..Len(trace[i].alerts) : trace[i].alerts[k].id = id}

\* C29: an announcement that was in the feed at start-up never raises the
\* alert, and every other announcement raises it in at most one iteration,
\* whatever the fetch of the market data and the analysis after the alert
\* do.
C29_AlertAtMostOnce ==
  \A a \in MonitorAnnouncements :
     /\ a.id \in trace[1].in_feed => Alerting(a.id) = {}
     /\ Cardinality(Alerting(a.id)) <= 1

(***************************************************************************)
(* analyze_last_listings as a sequence of steps.  The log of a run holds   *)
(* one event per adapter call and per stage of the analysis, in the order  *)
(* in which the statements run; the code has one thread and awaits         *)
(* nothing.  The announcements drawn are of the last 30 days.              *)
(***************************************************************************)
Event(symbol, kind, step, outcome) ==
  [symbol |-> symbol, kind |-> kind, step |-> step,
   outcome |-> IF outcome = Raise THEN "failed" ELSE "completed"]

\* lines 1346-1393: the adapter calls of one listing, in order.  CoinMarketCap
\* is asked only when CoinGecko gave nothing (lines 1347-1349); both count
\* as the market-data call.
FetchEvents(symbol, cmc_api_key, outcomes) ==
  <<Event(symbol, "adapter", "market", outcomes.coingecko)>>
  \o (IF Truthy(get_coingecko_data(outcomes.coingecko)) THEN <<>>
      ELSE <<Event(symbol, "adapter", "market", outcomes.coinmarketcap)>>)
  \o <<Event(symbol, "adapter", "social", outcomes.social),
       Event(symbol, "adapter", "dex", outcomes.dex),
       Event(symbol, "adapter", "historical", outcomes.historical),
       Event(symbol, "adapter", "github", outcomes.github),
       Event(symbol, "adapter", "trends", outcomes.trends),
       Event(symbol, "adapter", "orderbook", outcomes.order_book)>>

\* lines 1397-1453: the stages of analyze_comprehensive_strategy that ran
StageEvents(symbol, analysis) ==
  <<Event(symbol, "stage", "scoring", analysis.total_score)>>
  \o (IF analysis.hype = Raise THEN <<>>
      ELSE <<Event(symbol, "stage", "selection", NoneV)>>)
  \o (IF analysis.selected = "raise" THEN <<>>
      ELSE <<Event(symbol, "stage", "adjustment",
                   IF analysis.outer_raised THEN Raise ELSE NoneV)>>)

\* lines 1103-1118: one listing
\* variant: the analysis starts before the order book has been fetched
ListingEventsMutant(symbol, cmc_api_key, outcomes, stashed) ==
  LET fetches == FetchEvents(symbol, cmc_api_key, outcomes)
      stages  == StageEvents(symbol,
                   analyze_comprehensive_strategy(symbol,
                      get_comprehensive_token_data(cmc_api_key, outcomes),
                      TradingStrategy, stashed))
  IN  SubSeq(fetches, 1, Len(fetches) - 1) \o stages
      \o <<fetches[Len(fetches)]>>
ListingEvents(symbol, cmc_api_key, outcomes, stashed) ==
  FetchEvents(symbol, cmc_api_key, outcomes)
  \o StageEvents(symbol,
       analyze_comprehensive_strategy(symbol,
          get_comprehensive_token_data(cmc_api_key, outcomes),
          TradingStrategy, stashed))

\* lines 1087-1135: the loop over the announcements left, with the symbols
\* processed and the log so far
RECURSIVE analyze_last_listings(_, _, _, _, _, _)
analyze_last_listings(announcements, processed, log, cmc_api_key, providers, stashed) ==
  IF announcements = <<>> THEN [log |-> log, stashed |-> stashed]
  ELSE
    LET a      == Head(announcements)
        symbol == extract_symbol(a.title)
    IN  IF ~IsMonitorTitle(a.title) \/ symbol = NoSymbol \/ symbol \in processed
        THEN analyze_last_listings(Tail(announcements), processed, log, cmc_api_key,
                                   providers, stashed)
        ELSE analyze_last_listings(Tail(announcements), processed \cup {symbol},
                log \o ListingEvents(symbol, cmc_api_key, providers[symbol], stashed),
                cmc_api_key, providers, StashSymbol(stashed, symbol))

(***************************************************************************)
(* SpecBarrier: runs of analyze_last_listings over announcement lists with *)
(* up to two listings, whose adapters answer or fail.  trace is the log of *)
(* the last run.                                                           *)
(***************************************************************************)
BarrierOutcomes ==
  LET AllAnswer == [coingecko |-> MarketNoChange, coinmarketcap |-> MarketBag(1),
                    social |-> SocialBag(1), dex |-> DexBag(1),
                    historical |-> HistoricalBag, github |-> GithubBag,
                    trends |-> TrendsBag(1), order_book |-> OrderBookFull]
      AllFail == [coingecko |-> Raise, coinmarketcap |-> Raise, social |-> Raise,
                  dex |-> Raise, historical |-> Raise, github |-> Absent,
                  trends |-> Raise, order_book |-> Raise]
  IN  {AllAnswer, AllFail,
       [AllAnswer EXCEPT !.coingecko = Absent],
       [AllAnswer EXCEPT !.social = Raise],
       [AllAnswer EXCEPT !.order_book = Raise],
       [AllAnswer EXCEPT !.trends = TrendsText]}

BarrierSymbols == {XUSDT, DOGEUSDT}
InitBarrier ==
  LET BarrierFeeds == {<<>>, <<ListingX>>, <<ListingDoge, ListingX>>,
                       <<ListingX, Notice, ListingX, ListingDoge>>}
  IN  /\ current_symbol = Unset
      /\ presets = TradingStrategy
      /\ pc = "idle"
      /\ call = NoCall
      /\ prev = NoCall
      /\ cache = <<>>
      /\ clock = 0
      /\ last_set = <<>>
      /\ listing_history = {}
      /\ known_announcements = {}
      /\ feed \in BarrierFeeds
      /\ trace = <<>>

AnalyzeLastListings(answered, cmc_api_key, providers) ==
  /\ pc = "idle"
  /\ LET run == analyze_last_listings(get_announcements(answered, feed), {}, <<>>,
                                      cmc_api_key, providers, current_symbol)
     IN  /\ trace' = run.log
         /\ current_symbol' = run.stashed
  /\ call' = [op |-> "last_listings", answered |-> answered]
  /\ pc' = "returned"
  /\ UNCHANGED <<presets, prev, cache, clock, last_set, listing_history,
                 known_announcements, feed>>

NextBarrier ==
  \/ /\ pc = "idle"
     /\ \E answered \in BOOLEAN, cmc_api_key \in BOOLEAN,
           providers \in [BarrierSymbols -> BarrierOutcomes] :
           AnalyzeLastListings(answered, cmc_api_key, providers)
  \/ Forget

SpecBarrier == InitBarrier /\ [][NextBarrier]_vars

AdapterSteps == {"market", "social", "dex", "historical", "github", "trends",
                 "orderbook"}

\* the positions of the log that belong to the symbol
EventsOf(symbol) == {i \in 1..Len(trace) : trace[i].symbol = symbol}
StagesOf(symbol) == {i \in EventsOf(symbol) : trace[i].kind = "stage"}
FetchesOf(symbol, step) ==
  {i \in EventsOf(symbol) : trace[i].kind = "adapter" /\ trace[i].step = step}

\* C23: for every listing, each of the seven adapter calls has completed or
\* failed before the analysis of that listing starts, and the events of one
\* listing (collection, scoring, selection, adjustment) all come before the
\* collection for the next listing begins.
C23_ScoringBarrier ==
  \A symbol \in BarrierSymbols :
     /\ StagesOf(symbol) # {} =>
           \A step \in AdapterSteps :
              /\ FetchesOf(symbol, step) # {}
              /\ \A i \in FetchesOf(symbol, step), j \in StagesOf(symbol) : i < j
     /\ EventsOf(symbol) # {} => StagesOf(symbol) # {}
     /\ \A i, k \in EventsOf(symbol) : \A j \in i..k : trace[j].symbol = symbol

\* a run over two listings: adapters of the first one failed, and its last
\* stage comes before the first adapter call of the second one
C23_Witness ==
  /\ pc = "returned" /\ call.op = "last_listings"
  /\ EventsOf(XUSDT) # {} /\ EventsOf(DOGEUSDT) # {}
  /\ \E i \in EventsOf(DOGEUSDT) : trace[i].kind = "adapter" /\ trace[i].outcome = "failed"
  /\ \E i \in StagesOf(DOGEUSDT) : trace[i].step = "adjustment"
  /\ \A i \in EventsOf(DOGEUSDT), j \in EventsOf(XUSDT) : i < j

====
